---- MODULE Spec2Model ----
(***************************************************************************)
(* A model of scripts/fix-openapi-nullable.py: the OpenAPI post-processing *)
(* pipeline (load, six structural passes, the null-tag pass, write).       *)
(*                                                                         *)
(* A document is a tree of tagged nodes <<kind, payload>>:       *)
(*   "map"   a Python dict, payload a function from key strings to nodes   *)
(*   "seq"   a Python list, payload a sequence of nodes                    *)
(*   "str" / "int" / "bool"  scalars                                       *)
(*   "qnull" a QuotedNull("null") instance                                 *)
(*   "none"  Python None                                                   *)
(* Python dicts keep insertion order; the only order the passes depend on  *)
(* is that of components.schemas, kept beside the tree as 'order'.         *)
(***************************************************************************)
EXTENDS Integers, Sequences, FiniteSets, TLC

VARIABLES
    pc,          \* position of main(): "start", the pass last run, "done", "failed"
    argc,        \* len(sys.argv)
    pathExists,  \* spec_path.exists()
    file,        \* the document stored at spec_path: [tree, order]
    spec,        \* the in-memory document of main(): [tree, order]
    stderr,      \* messages printed to sys.stderr, in order
    stdout,      \* messages printed to sys.stdout, in order
    exitCode,    \* -1 while running, then the process exit status
    trace,       \* the steps main() has executed, in order
    runs,        \* number of invocations of the script started so far
    touched,     \* per pass: the document locations it has read and written
    pending,     \* passes not yet applied (permutation harness)
    arg,         \* argument of the function under test (function harness)
    prev,        \* the object before the last call (function harness)
    obj,         \* the object after the last call (function harness)
    calls        \* number of calls made (function harness)

vars == <<pc, argc, pathExists, file, spec, stderr, stdout, exitCode, trace,
          runs, touched, pending, arg, prev, obj, calls>>

(***************************************************************************)
(* Tree values                                                             *)
(***************************************************************************)
M(f) == <<"map", f>>
L(s) == <<"seq", s>>
S(x) == <<"str", x>>
I(n) == <<"int", n>>
B(b) == <<"bool", b>>
None == <<"none", "None">>
QuotedNull == <<"qnull", "null">>
EmptyDict == M([x \in {} |-> x])

IsDict(n) == n[1] = "map"
IsList(n) == n[1] = "seq"
Keys(n) == DOMAIN n[2]

\* key in d
Has(d, key) == IsDict(d) /\ key \in DOMAIN d[2]
\* d.get(key, default)
GetOr(d, key, default) == IF Has(d, key) THEN d[2][key] ELSE default
\* d[key] = val
Put(d, key, val) == M([x \in (DOMAIN d[2]) \cup {key} |-> IF x = key THEN val ELSE d[2][x]])
\* d.pop(key, None), the popped value dropped
Del(d, key) == M([x \in (DOMAIN d[2]) \ {key} |-> d[2][x]])
\* an optional entry of a dict literal
Opt(key, o) == IF o[1] = "none" THEN <<>> ELSE key :> o

\* Python ==: QuotedNull subclasses str, so QuotedNull("null") == "null"
PyEqStr(n, text) == n[1] \in {"str", "qnull"} /\ n[2] = text
\* Python truthiness
Truthy(n) ==
    CASE n[1] = "none" -> FALSE
      [] n[1] = "str"  -> n[2] # ""
      [] n[1] = "qnull" -> TRUE
      [] n[1] = "int"  -> n[2] # 0
      [] n[1] = "bool" -> n[2]
      [] n[1] = "map"  -> DOMAIN n[2] # {}
      [] n[1] = "seq"  -> Len(n[2]) > 0

NullMarker == M([type |-> S("null")])
Ref(r) == M("$ref" :> S(r))

(***************************************************************************)
(* _make_nullable                                                          *)
(***************************************************************************)
\* any(v.get("type") == "null" for v in variants)
AnyNullVariant(variants) ==
    \E i \in DOMAIN variants[2] : PyEqStr(GetOr(variants[2][i], "type", None), "null")

\* the $ref branch: the non-null variant of a reference field
RefNonNull(field_schema) ==
    LET non_null == M("$ref" :> field_schema[2]["$ref"])
        desc == GetOr(field_schema, "description", None)
    IN  IF Truthy(desc)
        THEN M([allOf |-> L(<<non_null, M([description |-> desc])>>)])
        ELSE non_null

\* a slip: only the type is kept
PrimitiveNonNullTypeOnly(field_schema) ==
    M([x \in (DOMAIN field_schema[2]) \cap {"type"} |-> field_schema[2][x]])

\* the primitive branch: every key but anyOf moves into the non-null variant
PrimitiveNonNull(field_schema) ==
    M([x \in (DOMAIN field_schema[2]) \ {"anyOf"} |-> field_schema[2][x]])

NonNullVariant(field_schema) ==
    IF Has(field_schema, "$ref")
    THEN RefNonNull(field_schema)
    ELSE PrimitiveNonNull(field_schema)

\* a slip: the already-nullable test is left out
MakeNullableAlwaysWraps(field_schema) ==
    M([anyOf |-> L(<<NonNullVariant(field_schema), NullMarker>>)])

MakeNullable(field_schema) ==
    IF Has(field_schema, "anyOf") /\ AnyNullVariant(field_schema[2]["anyOf"])
    THEN field_schema
    ELSE M([anyOf |-> L(<<NonNullVariant(field_schema), NullMarker>>)])

(***************************************************************************)
(* _tag_null_types                                                         *)
(***************************************************************************)
RECURSIVE TagNullTypesSkipsTypeValue(_)
\* a slip: the value of a type key is never descended into
TagNullTypesSkipsTypeValue(o) ==
    IF IsDict(o)
    THEN M([key \in DOMAIN o[2] |->
               IF key = "type"
               THEN (IF PyEqStr(o[2][key], "null") THEN QuotedNull ELSE o[2][key])
               ELSE TagNullTypesSkipsTypeValue(o[2][key])])
    ELSE IF IsList(o)
    THEN L([i \in DOMAIN o[2] |-> TagNullTypesSkipsTypeValue(o[2][i])])
    ELSE o

RECURSIVE TagNullTypesSkipsLists(_)
\* a slip: lists are not descended into
TagNullTypesSkipsLists(o) ==
    IF IsDict(o)
    THEN M([key \in DOMAIN o[2] |->
               IF key = "type" /\ PyEqStr(o[2][key], "null")
               THEN QuotedNull
               ELSE TagNullTypesSkipsLists(o[2][key])])
    ELSE o

RECURSIVE TagNullTypes(_)
TagNullTypes(o) ==
    IF IsDict(o)
    THEN M([key \in DOMAIN o[2] |->
               IF key = "type" /\ PyEqStr(o[2][key], "null")
               THEN QuotedNull
               ELSE TagNullTypes(o[2][key])])
    ELSE IF IsList(o)
    THEN L([i \in DOMAIN o[2] |-> TagNullTypes(o[2][i])])
    ELSE o

(***************************************************************************)
(* Schema keys and suffix lookup                                           *)
(*                                                                         *)
(* str.endswith is computed on the text of a key, held as a sequence of    *)
(* tokens: key ends with suffix iff the suffix's tokens are the key's last *)
(* tokens.  The tokens are cut so that no suffix starts inside a token.    *)
(***************************************************************************)
KeyText ==
    ("pkg.schema.Response" :> <<"pkg.", "schema.", "Response">>) @@
    ("alt.schema.Response" :> <<"alt.", "schema.", "Response">>) @@
    ("pkg.schema.ResponseItem" :> <<"pkg.", "schema.", "Response", "Item">>) @@
    ("pkg.schema.File" :> <<"pkg.", "schema.", "File">>) @@
    ("alt.schema.File" :> <<"alt.", "schema.", "File">>) @@
    ("pkg.schema.VectorStoreFile" :> <<"pkg.", "schema.", "VectorStore", "File">>) @@
    ("pkg.schema.ChunkingStrategy" :> <<"pkg.", "schema.", "ChunkingStrategy">>) @@
    ("alt.schema.ChunkingStrategy" :> <<"alt.", "schema.", "ChunkingStrategy">>) @@
    ("pkg.schema.CreateVectorStoreRequest" :> <<"pkg.", "schema.", "Create", "VectorStore", "Request">>) @@
    ("alt.schema.CreateVectorStoreRequest" :> <<"alt.", "schema.", "Create", "VectorStore", "Request">>) @@
    ("pkg.schema.AddVectorStoreFileRequest" :> <<"pkg.", "schema.", "Add", "VectorStore", "File", "Request">>) @@
    ("pkg.schema.CreateVectorStoreFileBatchRequest" :>
        <<"pkg.", "schema.", "Create", "VectorStore", "File", "Batch", "Request">>) @@
    ("pkg.schema.SearchVectorStoreRequest" :> <<"pkg.", "schema.", "Search", "VectorStore", "Request">>) @@
    ("alt.schema.SearchVectorStoreRequest" :> <<"alt.", "schema.", "Search", "VectorStore", "Request">>) @@
    ("StaticChunkingStrategyResponseParam" :> <<"Static", "ChunkingStrategy", "Response", "Param">>) @@
    ("OtherChunkingStrategyResponseParam" :> <<"Other", "ChunkingStrategy", "Response", "Param">>) @@
    ("AutoChunkingStrategyRequestParam" :> <<"Auto", "ChunkingStrategy", "Request", "Param">>) @@
    ("StaticChunkingStrategyRequestParam" :> <<"Static", "ChunkingStrategy", "Request", "Param">>) @@
    ("ComparisonFilter" :> <<"Comparison", "Filter">>) @@
    ("CompoundFilter" :> <<"Compound", "Filter">>) @@
    ("schema.Response" :> <<"schema.", "Response">>) @@
    ("schema.File" :> <<"schema.", "File">>) @@
    ("schema.ChunkingStrategy" :> <<"schema.", "ChunkingStrategy">>) @@
    ("schema.CreateVectorStoreRequest" :> <<"schema.", "Create", "VectorStore", "Request">>) @@
    ("schema.AddVectorStoreFileRequest" :> <<"schema.", "Add", "VectorStore", "File", "Request">>) @@
    ("schema.CreateVectorStoreFileBatchRequest" :>
        <<"schema.", "Create", "VectorStore", "File", "Batch", "Request">>) @@
    ("schema.SearchVectorStoreRequest" :> <<"schema.", "Search", "VectorStore", "Request">>)

\* key.endswith(suffix)
EndsWith(key, suffix) ==
    LET a == KeyText[key]
        b == KeyText[suffix]
    IN  /\ Len(a) >= Len(b)
        /\ SubSeq(a, Len(a) - Len(b) + 1, Len(a)) = b

NoKey == "<None>"

\* a slip: the loop has no break, so the last matching key is kept
LastMatch(order, suffix) ==
    LET hits == {i \in 1..Len(order) : EndsWith(order[i], suffix)}
    IN  IF hits = {} THEN NoKey
        ELSE order[CHOOSE i \in hits : \A j \in hits : i >= j]

\* for key in schemas: if key.endswith(suffix): matched_key = key; break
FirstMatch(order, suffix) ==
    LET hits == {i \in 1..Len(order) : EndsWith(order[i], suffix)}
    IN  IF hits = {} THEN NoKey
        ELSE order[CHOOSE i \in hits : \A j \in hits : i <= j]

(***************************************************************************)
(* The document: d = [tree, order]                                         *)
(***************************************************************************)
RECURSIVE GetPath(_, _)
\* n.get(k1, {}).get(k2, {})...
GetPath(n, path) ==
    IF path = <<>> THEN n
    ELSE GetPath(GetOr(n, Head(path), EmptyDict), Tail(path))

RECURSIVE HasPath(_, _)
HasPath(n, path) ==
    \/ path = <<>>
    \/ Has(n, Head(path)) /\ HasPath(n[2][Head(path)], Tail(path))

RECURSIVE PutPath(_, _, _)
\* an assignment through a chain of existing dicts; a chain that went through
\* a .get() default mutates a temporary and leaves the tree as it was
PutPath(n, path, val) ==
    IF path = <<>> THEN val
    ELSE IF ~Has(n, Head(path)) THEN n
    ELSE Put(n, Head(path), PutPath(n[2][Head(path)], Tail(path), val))

SchemasPath == <<"components", "schemas">>
\* schemas = spec.get("components", {}).get("schemas", {})
Schemas(d) == GetPath(d.tree, SchemasPath)

\* schemas[key] = value: a new key goes last in declaration order
PutSchema(d, key, value) ==
    IF ~HasPath(d.tree, SchemasPath) THEN d
    ELSE [tree |-> PutPath(d.tree, SchemasPath, Put(Schemas(d), key, value)),
          order |-> IF Has(Schemas(d), key) THEN d.order ELSE Append(d.order, key)]

\* schemas[key]["properties"][name] = value, props being a dict of the tree
PutProperty(d, key, name, value) ==
    [d EXCEPT !.tree = PutPath(@, SchemasPath \o <<key, "properties", name>>, value)]

\* props = schemas[key].get("properties", {})
Properties(d, key) == GetOr(Schemas(d)[2][key], "properties", EmptyDict)

(***************************************************************************)
(* fix_nullable                                                            *)
(***************************************************************************)
ErrorDescription == "The error that occurred, if the response failed."
IncompleteDescription == "Details about why the response was incomplete, if applicable."

\* (schema_name_suffix, field_name, description_override)
NULLABLE_FIELDS == <<
    <<"schema.Response", "completed_at", None>>,
    <<"schema.Response", "error", S(ErrorDescription)>>,
    <<"schema.Response", "incomplete_details", S(IncompleteDescription)>>,
    <<"schema.Response", "usage", None>>,
    <<"schema.Response", "previous_response_id", None>>,
    <<"schema.Response", "conversation", None>>,
    <<"schema.Response", "instructions", None>>,
    <<"schema.Response", "reasoning", None>>,
    <<"schema.Response", "max_output_tokens", None>>,
    <<"schema.Response", "max_tool_calls", None>> >>

SchemaWarning(schema_suffix) == <<"warning", "schema not found", schema_suffix>>
FieldWarning(field_name, key) == <<"warning", "field not found", field_name, key>>

\* if desc_override is not None: props[field_name]["description"] = desc_override
ApplyOverride(field_schema, desc_override) ==
    IF desc_override[1] # "none"
    THEN Put(field_schema, "description", desc_override)
    ELSE field_schema

\* one iteration of the loop over NULLABLE_FIELDS: [spec, err]
FixNullableRule(d, rule) ==
    LET schema_suffix == rule[1]
        field_name == rule[2]
        desc_override == rule[3]
        matched_key == FirstMatch(d.order, schema_suffix)
    IN  IF matched_key = NoKey
        THEN [spec |-> d, err |-> <<SchemaWarning(schema_suffix)>>]
        ELSE IF ~Has(Properties(d, matched_key), field_name)
        THEN [spec |-> d, err |-> <<FieldWarning(field_name, matched_key)>>]
        ELSE [spec |-> PutProperty(d, matched_key, field_name,
                          MakeNullable(ApplyOverride(
                              Properties(d, matched_key)[2][field_name], desc_override))),
              err |-> <<>>]

RECURSIVE FixNullableFromStopsAtMiss(_, _)
\* a slip: break where the code has continue
FixNullableFromStopsAtMiss(d, i) ==
    IF i > Len(NULLABLE_FIELDS) THEN [spec |-> d, err |-> <<>>]
    ELSE LET one == FixNullableRule(d, NULLABLE_FIELDS[i])
         IN  IF one.err # <<>> THEN one
             ELSE LET rest == FixNullableFromStopsAtMiss(one.spec, i + 1)
                  IN  [spec |-> rest.spec, err |-> one.err \o rest.err]

RECURSIVE FixNullableFrom(_, _)
\* the loop from rule i on, a miss continuing with the next rule
FixNullableFrom(d, i) ==
    IF i > Len(NULLABLE_FIELDS) THEN [spec |-> d, err |-> <<>>]
    ELSE LET one == FixNullableRule(d, NULLABLE_FIELDS[i])
             rest == FixNullableFrom(one.spec, i + 1)
         IN  [spec |-> rest.spec, err |-> one.err \o rest.err]

FixNullable(d) == FixNullableFrom(d, 1)

(***************************************************************************)
(* The schema literals below are those of the source, key for key.  A TLA+ *)
(* string cannot hold a backquote: the backquotes of the description texts *)
(* are written as apostrophes.                                             *)
(***************************************************************************)

(***************************************************************************)
(* fix_files_api                                                           *)
(***************************************************************************)
FilesContentPath == <<"paths", "/v1/files", "post", "requestBody", "content">>
Multipart == "multipart/form-data"
UrlEncoded == "application/x-www-form-urlencoded"

FilesMultipartSchema ==
    M(
        ("type" :> S("object")) @@
        ("required" :> L(<<S("file"), S("purpose")>>)) @@
        ("properties" :> M(
            ("file" :> M(
                ("type" :> S("string")) @@
                ("format" :> S("binary")) @@
                ("description" :> S("File to upload")))) @@
            ("purpose" :> M(
                ("type" :> S("string")) @@
                ("description" :> S("Purpose: assistants, vision, batch, or fine-tune")) @@
                ("enum" :> L(<<S("assistants"), S("batch"), S("fine-tune"), S("vision"), S("user_data"), S("evals")>>)))))))

\* a slip: the fixed schema is merged into the schema found, not assigned
FixFilesMultipartUpdates(d) ==
    LET rb_content == GetPath(d.tree, FilesContentPath)
        found == GetOr(rb_content[2][Multipart], "schema", EmptyDict)
    IN  IF Has(rb_content, Multipart)
        THEN [d EXCEPT !.tree = PutPath(@, FilesContentPath,
                 Del(Put(rb_content, Multipart,
                         Put(rb_content[2][Multipart], "schema",
                             M(FilesMultipartSchema[2] @@ found[2]))),
                     UrlEncoded))]
        ELSE d

\* a slip: the urlencoded entry is not popped
FixFilesMultipartKeepsUrlEncoded(d) ==
    LET rb_content == GetPath(d.tree, FilesContentPath)
    IN  IF Has(rb_content, Multipart)
        THEN [d EXCEPT !.tree = PutPath(@, FilesContentPath,
                 Put(rb_content, Multipart,
                     Put(rb_content[2][Multipart], "schema", FilesMultipartSchema)))]
        ELSE d

\* Fix 1: the multipart schema is replaced and the urlencoded entry popped
FixFilesMultipart(d) ==
    LET rb_content == GetPath(d.tree, FilesContentPath)
    IN  IF Has(rb_content, Multipart)
        THEN [d EXCEPT !.tree = PutPath(@, FilesContentPath,
                 Del(Put(rb_content, Multipart,
                         Put(rb_content[2][Multipart], "schema", FilesMultipartSchema)),
                     UrlEncoded))]
        ELSE d

\* a slip: Fix 2 sits inside the multipart test of Fix 1
FixFileSchemaTypeIfMultipart(d) ==
    LET key == FirstMatch(d.order, "schema.File")
    IN  IF key = NoKey \/ ~Has(GetPath(d.tree, FilesContentPath), Multipart) THEN d
        ELSE PutSchema(d, key, Del(Schemas(d)[2][key], "type"))

\* Fix 2: schemas[key].pop("type", None) on the first key ending schema.File
FixFileSchemaType(d) ==
    LET key == FirstMatch(d.order, "schema.File")
    IN  IF key = NoKey THEN d
        ELSE PutSchema(d, key, Del(Schemas(d)[2][key], "type"))

FixFilesApi(d) == FixFileSchemaType(FixFilesMultipart(d))

(***************************************************************************)
(* fix_request_body_oneof                                                  *)
(***************************************************************************)
\* the variants of one_of that carry $ref, by position
RefVariants(one_of) == {i \in DOMAIN one_of[2] : Has(one_of[2][i], "$ref")}

\* a slip: schema.clear() is left out, so the wrapper's keys stay beside $ref
DewrapSchemaNoClear(schema) ==
    LET one_of == GetOr(schema, "oneOf", None)
    IN  IF ~IsList(one_of) \/ Len(one_of[2]) # 2 THEN schema
        ELSE IF RefVariants(one_of) = {} THEN schema
        ELSE LET first == CHOOSE i \in RefVariants(one_of) :
                              \A j \in RefVariants(one_of) : i <= j
             IN  Put(schema, "$ref", one_of[2][first][2]["$ref"])

\* schema.clear(); schema["$ref"] = ref, for a two-element oneOf with a $ref variant
DewrapSchema(schema) ==
    LET one_of == GetOr(schema, "oneOf", None)
    IN  IF ~IsList(one_of) \/ Len(one_of[2]) # 2 THEN schema
        ELSE IF RefVariants(one_of) = {} THEN schema
        ELSE LET first == CHOOSE i \in RefVariants(one_of) :
                              \A j \in RefVariants(one_of) : i <= j
             IN  M("$ref" :> one_of[2][first][2]["$ref"])

\* schema = media.get("schema", {}): a missing schema is a temporary
DewrapMedia(media) ==
    IF Has(media, "schema")
    THEN Put(media, "schema", DewrapSchema(media[2]["schema"]))
    ELSE media

DewrapOperation(operation) ==
    IF ~IsDict(operation) THEN operation
    ELSE LET content == GetPath(operation, <<"requestBody", "content">>)
         IN  PutPath(operation, <<"requestBody", "content">>,
                     M([ct \in DOMAIN content[2] |-> DewrapMedia(content[2][ct])]))

FixRequestBodyOneof(d) ==
    LET paths == GetOr(d.tree, "paths", EmptyDict)
    IN  [d EXCEPT !.tree = PutPath(@, <<"paths">>,
            M([path \in DOMAIN paths[2] |->
                M([method \in DOMAIN paths[2][path][2] |->
                    DewrapOperation(paths[2][path][2][method])])]))]

(***************************************************************************)
(* fix_chunking_strategy_union                                             *)
(***************************************************************************)
StaticChunkingStrategyResponseParam ==
    M(
        ("type" :> S("object")) @@
        ("title" :> S("Static Chunking Strategy")) @@
        ("additionalProperties" :> B(FALSE)) @@
        ("properties" :> M(
            ("type" :> M(
                ("type" :> S("string")) @@
                ("description" :> S("Always 'static'.")) @@
                ("enum" :> L(<<S("static")>>)))) @@
            ("static" :> M(
                ("type" :> S("object")) @@
                ("additionalProperties" :> B(FALSE)) @@
                ("properties" :> M(
                    ("max_chunk_size_tokens" :> M(
                        ("type" :> S("integer")) @@
                        ("minimum" :> I(100)) @@
                        ("maximum" :> I(4096)) @@
                        ("description" :> S("The maximum number of tokens in each chunk. The default value is '800'. The minimum value is '100' and the maximum value is '4096'.")))) @@
                    ("chunk_overlap_tokens" :> M(
                        ("type" :> S("integer")) @@
                        ("description" :> S("The number of tokens that overlap between chunks. The default value is '400'.\n\nNote that the overlap must not exceed half of 'max_chunk_size_tokens'.\n")))))) @@
                ("required" :> L(<<S("max_chunk_size_tokens"), S("chunk_overlap_tokens")>>)))))) @@
        ("required" :> L(<<S("type"), S("static")>>)))

OtherChunkingStrategyResponseParam ==
    M(
        ("type" :> S("object")) @@
        ("title" :> S("Other Chunking Strategy")) @@
        ("description" :> S("This is returned when the chunking strategy is unknown. Typically, this is because the file was indexed before the 'chunking_strategy' concept was introduced in the API.")) @@
        ("additionalProperties" :> B(FALSE)) @@
        ("properties" :> M(
            ("type" :> M(
                ("type" :> S("string")) @@
                ("description" :> S("Always 'other'.")) @@
                ("enum" :> L(<<S("other")>>)))))) @@
        ("required" :> L(<<S("type")>>)))

ChunkingStrategyUnion ==
    M(
        ("type" :> S("object")) @@
        ("description" :> S("The strategy used to chunk the file.")) @@
        ("oneOf" :> L(<<
            M(("$ref" :> S("#/components/schemas/StaticChunkingStrategyResponseParam"))),
            M(("$ref" :> S("#/components/schemas/OtherChunkingStrategyResponseParam")))>>)))

\* a slip: the union is merged into the schema found, whose other keys stay
FixChunkingStrategyUnionUpdates(d) ==
    LET cs_key == FirstMatch(d.order, "schema.ChunkingStrategy")
    IN  IF cs_key = NoKey THEN d
        ELSE PutSchema(
                 PutSchema(
                     PutSchema(d, "StaticChunkingStrategyResponseParam",
                               StaticChunkingStrategyResponseParam),
                     "OtherChunkingStrategyResponseParam",
                     OtherChunkingStrategyResponseParam),
                 cs_key, M(ChunkingStrategyUnion[2] @@ Schemas(d)[2][cs_key][2]))

FixChunkingStrategyUnion(d) ==
    LET cs_key == FirstMatch(d.order, "schema.ChunkingStrategy")
    IN  IF cs_key = NoKey THEN d
        ELSE PutSchema(
                 PutSchema(
                     PutSchema(d, "StaticChunkingStrategyResponseParam",
                               StaticChunkingStrategyResponseParam),
                     "OtherChunkingStrategyResponseParam",
                     OtherChunkingStrategyResponseParam),
                 cs_key, ChunkingStrategyUnion)

(***************************************************************************)
(* fix_request_chunking_strategy                                           *)
(***************************************************************************)
AutoChunkingStrategyRequestParam ==
    M(
        ("type" :> S("object")) @@
        ("title" :> S("Auto Chunking Strategy")) @@
        ("description" :> S("The default strategy. This strategy currently uses a 'max_chunk_size_tokens' of '800' and 'chunk_overlap_tokens' of '400'.")) @@
        ("additionalProperties" :> B(FALSE)) @@
        ("properties" :> M(
            ("type" :> M(
                ("type" :> S("string")) @@
                ("description" :> S("Always 'auto'.")) @@
                ("enum" :> L(<<S("auto")>>)))))) @@
        ("required" :> L(<<S("type")>>)))

StaticChunkingStrategyRequestParam ==
    M(
        ("type" :> S("object")) @@
        ("title" :> S("Static Chunking Strategy")) @@
        ("description" :> S("Customize your own chunking strategy by setting chunk size and chunk overlap.")) @@
        ("additionalProperties" :> B(FALSE)) @@
        ("properties" :> M(
            ("type" :> M(
                ("type" :> S("string")) @@
                ("description" :> S("Always 'static'.")) @@
                ("enum" :> L(<<S("static")>>)))) @@
            ("static" :> M(
                ("type" :> S("object")) @@
                ("additionalProperties" :> B(FALSE)) @@
                ("properties" :> M(
                    ("max_chunk_size_tokens" :> M(
                        ("type" :> S("integer")) @@
                        ("minimum" :> I(100)) @@
                        ("maximum" :> I(4096)) @@
                        ("description" :> S("The maximum number of tokens in each chunk. The default value is '800'. The minimum value is '100' and the maximum value is '4096'.")))) @@
                    ("chunk_overlap_tokens" :> M(
                        ("type" :> S("integer")) @@
                        ("description" :> S("The number of tokens that overlap between chunks. The default value is '400'.\n\nNote that the overlap must not exceed half of 'max_chunk_size_tokens'.\n")))))) @@
                ("required" :> L(<<S("max_chunk_size_tokens"), S("chunk_overlap_tokens")>>)))))) @@
        ("required" :> L(<<S("type"), S("static")>>)))

request_cs ==
    M(
        ("type" :> S("object")) @@
        ("description" :> S("The chunking strategy used to chunk the file(s). If not set, will use the 'auto' strategy.")) @@
        ("oneOf" :> L(<<
            M(("$ref" :> S("#/components/schemas/AutoChunkingStrategyRequestParam"))),
            M(("$ref" :> S("#/components/schemas/StaticChunkingStrategyRequestParam")))>>)))

request_schema_suffixes == <<
    "schema.CreateVectorStoreRequest",
    "schema.AddVectorStoreFileRequest",
    "schema.CreateVectorStoreFileBatchRequest" >>

IsRequestSchemaKey(key) ==
    \E i \in DOMAIN request_schema_suffixes : EndsWith(key, request_schema_suffixes[i])

\* props["chunking_strategy"] = request_cs when the property is there
PatchRequestSchema(schema) ==
    IF Has(GetOr(schema, "properties", EmptyDict), "chunking_strategy")
    THEN PutPath(schema, <<"properties", "chunking_strategy">>, request_cs)
    ELSE schema

\* a slip: only the first request schema found is patched
FixRequestChunkingStrategyFirstOnly(d) ==
    LET added == PutSchema(
                     PutSchema(d, "AutoChunkingStrategyRequestParam",
                               AutoChunkingStrategyRequestParam),
                     "StaticChunkingStrategyRequestParam",
                     StaticChunkingStrategyRequestParam)
        hits == {i \in DOMAIN added.order : IsRequestSchemaKey(added.order[i])}
    IN  IF hits = {} THEN added
        ELSE LET key == added.order[CHOOSE i \in hits : \A j \in hits : i <= j]
             IN  [added EXCEPT !.tree = PutPath(@, SchemasPath \o <<key>>,
                                                PatchRequestSchema(Schemas(added)[2][key]))]

FixRequestChunkingStrategy(d) ==
    LET added == PutSchema(
                     PutSchema(d, "AutoChunkingStrategyRequestParam",
                               AutoChunkingStrategyRequestParam),
                     "StaticChunkingStrategyRequestParam",
                     StaticChunkingStrategyRequestParam)
        schemas == Schemas(added)
    IN  [added EXCEPT !.tree = PutPath(@, SchemasPath,
            M([key \in DOMAIN schemas[2] |->
                IF IsRequestSchemaKey(key)
                THEN PatchRequestSchema(schemas[2][key])
                ELSE schemas[2][key]]))]

(***************************************************************************)
(* fix_search_request                                                      *)
(***************************************************************************)
QueryUnion ==
    M(
        ("description" :> S("A query string for a search")) @@
        ("oneOf" :> L(<<
            M(("type" :> S("string"))),
            M(
                ("type" :> S("array")) @@
                ("items" :> M(
                    ("type" :> S("string")) @@
                    ("description" :> S("A list of queries to search for.")) @@
                    ("minItems" :> I(1)))))>>)))

ComparisonFilter ==
    M(
        ("type" :> S("object")) @@
        ("title" :> S("Comparison filter")) @@
        ("description" :> S("A filter used to compare a specified attribute key to a given value using a defined comparison operation.")) @@
        ("additionalProperties" :> B(FALSE)) @@
        ("properties" :> M(
            ("type" :> M(
                ("type" :> S("string")) @@
                ("enum" :> L(<<S("eq"), S("ne"), S("gt"), S("gte"), S("lt"), S("lte")>>)))) @@
            ("key" :> M(("type" :> S("string")))) @@
            ("value" :> M(
                ("oneOf" :> L(<<
                    M(("type" :> S("string"))),
                    M(("type" :> S("number"))),
                    M(("type" :> S("boolean")))>>)))))) @@
        ("required" :> L(<<S("type"), S("key"), S("value")>>)))

\* a slip: the items of a compound filter are comparison filters only
CompoundFilterNoSelfReference ==
    M(
        ("type" :> S("object")) @@
        ("title" :> S("Compound filter")) @@
        ("description" :> S("Combine multiple filters using 'and' or 'or'.")) @@
        ("additionalProperties" :> B(FALSE)) @@
        ("properties" :> M(
            ("type" :> M(
                ("type" :> S("string")) @@
                ("enum" :> L(<<S("and"), S("or")>>)))) @@
            ("filters" :> M(
                ("type" :> S("array")) @@
                ("items" :> M(
                    ("oneOf" :> L(<<
                        M(("$ref" :> S("#/components/schemas/ComparisonFilter")))>>)))))))) @@
        ("required" :> L(<<S("type"), S("filters")>>)))

CompoundFilter ==
    M(
        ("type" :> S("object")) @@
        ("title" :> S("Compound filter")) @@
        ("description" :> S("Combine multiple filters using 'and' or 'or'.")) @@
        ("additionalProperties" :> B(FALSE)) @@
        ("properties" :> M(
            ("type" :> M(
                ("type" :> S("string")) @@
                ("enum" :> L(<<S("and"), S("or")>>)))) @@
            ("filters" :> M(
                ("type" :> S("array")) @@
                ("items" :> M(
                    ("oneOf" :> L(<<
                        M(("$ref" :> S("#/components/schemas/ComparisonFilter"))),
                        M(("$ref" :> S("#/components/schemas/CompoundFilter")))>>)))))))) @@
        ("required" :> L(<<S("type"), S("filters")>>)))

FiltersUnion ==
    M(
        ("description" :> S("A filter to apply based on file attributes.")) @@
        ("oneOf" :> L(<<
            M(("$ref" :> S("#/components/schemas/ComparisonFilter"))),
            M(("$ref" :> S("#/components/schemas/CompoundFilter")))>>)))

\* a slip: the rewrite sits inside the test for filters
FixSearchFieldOnlyWithFilters(d, key, name, value) ==
    IF Has(Properties(d, key), name) /\ Has(Properties(d, key), "filters")
    THEN PutProperty(d, key, name, value)
    ELSE d

\* props[name] = value when name is in props
FixSearchField(d, key, name, value) ==
    IF Has(Properties(d, key), name) THEN PutProperty(d, key, name, value) ELSE d

\* a slip: CompoundFilter is referred to and never added
FixSearchFiltersNoCompound(d, key) ==
    IF Has(Properties(d, key), "filters")
    THEN PutProperty(PutSchema(d, "ComparisonFilter", ComparisonFilter),
                     key, "filters", FiltersUnion)
    ELSE d

\* the filters branch: the two named schemas are added, then the property set
FixSearchFilters(d, key) ==
    IF Has(Properties(d, key), "filters")
    THEN PutProperty(
             PutSchema(PutSchema(d, "ComparisonFilter", ComparisonFilter),
                       "CompoundFilter", CompoundFilter),
             key, "filters", FiltersUnion)
    ELSE d

\* a slip: the property is assigned a new dict holding the default alone
FixSearchDefaultReplaces(d, key, name, value) ==
    IF Has(Properties(d, key), name)
    THEN PutProperty(d, key, name, M("default" :> value))
    ELSE d

\* props[name]["default"] = value when name is in props
FixSearchDefault(d, key, name, value) ==
    IF Has(Properties(d, key), name)
    THEN PutProperty(d, key, name, Put(Properties(d, key)[2][name], "default", value))
    ELSE d

FixSearchRequest(d) ==
    LET key == FirstMatch(d.order, "schema.SearchVectorStoreRequest")
    IN  IF key = NoKey THEN d
        ELSE FixSearchDefault(
                 FixSearchDefault(
                     FixSearchFilters(
                         FixSearchField(d, key, "query", QueryUnion),
                         key),
                     key, "max_num_results", I(10)),
                 key, "rewrite_query", B(FALSE))

(***************************************************************************)
(* The file at spec_path.  On disk a string is a scalar in the style the   *)
(* writer chose ("str") or, for a QuotedNull, a scalar forced into double  *)
(* quotes ("dq"); yaml.safe_load reads both back as a plain str.           *)
(***************************************************************************)
RECURSIVE YamlDump(_)
\* yaml.dump with the QuotedNull representer registered
YamlDump(n) ==
    CASE n[1] = "map" -> M([key \in DOMAIN n[2] |-> YamlDump(n[2][key])])
      [] n[1] = "seq" -> L([i \in DOMAIN n[2] |-> YamlDump(n[2][i])])
      [] n[1] = "qnull" -> <<"dq", n[2]>>
      [] OTHER -> n

RECURSIVE SafeLoad(_)
\* yaml.safe_load
SafeLoad(n) ==
    CASE n[1] = "map" -> M([key \in DOMAIN n[2] |-> SafeLoad(n[2][key])])
      [] n[1] = "seq" -> L([i \in DOMAIN n[2] |-> SafeLoad(n[2][i])])
      [] n[1] = "dq" -> S(n[2])
      [] OTHER -> n

NoDoc == [tree |-> None, order |-> <<>>]

(***************************************************************************)
(* Input documents                                                         *)
(***************************************************************************)
MaxRuns == 2
MaxCalls == 2

ErrorRef == "#/components/schemas/pkg.schema.ResponseError"
UsageRef == "#/components/schemas/pkg.schema.Usage"
CsRef == "#/components/schemas/pkg.schema.ChunkingStrategy"

\* shapes of the Response properties the rules name; None: the property is absent
ErrorShapes ==
    { None,
      Ref(ErrorRef),
      M(("$ref" :> S(ErrorRef)) @@ ("description" :> S("generated error text"))),
      M([anyOf |-> L(<<Ref(ErrorRef), NullMarker>>)]) }
UsageShapes ==
    { None,
      Ref(UsageRef),
      M(("$ref" :> S(UsageRef)) @@ ("description" :> S(""))),
      M(("$ref" :> S(UsageRef)) @@ ("description" :> S("Token usage"))) }
CompletedAtShapes ==
    { None,
      M([type |-> S("integer")]),
      M([type |-> S("integer"), description |-> S("Unix timestamp")]),
      M([anyOf |-> L(<<M([type |-> S("string")]), M([type |-> S("integer")])>>),
         description |-> S("Unix timestamp")]) }
IncompleteShapes ==
    { None,
      M([type |-> S("object"), description |-> S("generated details text")]) }

ResponseSchemaOf(error, usage, completed_at, incomplete) ==
    M([type |-> S("object"),
       properties |-> M(("id" :> M([type |-> S("string")])) @@
                        Opt("error", error) @@ Opt("usage", usage) @@
                        Opt("completed_at", completed_at) @@
                        Opt("incomplete_details", incomplete))])

\* the Response part of components.schemas: [schemas, order]
ResponseParts ==
    { [schemas |-> ("pkg.schema.Response" :> ResponseSchemaOf(e, u, c, i)),
       order |-> <<"pkg.schema.Response">>] :
         e \in ErrorShapes, u \in UsageShapes, c \in CompletedAtShapes, i \in IncompleteShapes }
    \cup
    { [schemas |-> <<>>, order |-> <<>>],
      [schemas |-> ("pkg.schema.Response" :> M([type |-> S("object")])),
       order |-> <<"pkg.schema.Response">>],
      [schemas |-> ("pkg.schema.ResponseItem" :>
                       ResponseSchemaOf(Ref(ErrorRef), None, None, None)),
       order |-> <<"pkg.schema.ResponseItem">>],
      [schemas |-> ("alt.schema.Response" :>
                       ResponseSchemaOf(Ref(ErrorRef), None, M([type |-> S("integer")]), None)) @@
                   ("pkg.schema.Response" :>
                       ResponseSchemaOf(Ref(ErrorRef), Ref(UsageRef), None, None)),
       order |-> <<"alt.schema.Response", "pkg.schema.Response">>] }

\* a request body as swag writes it: a oneOf of a placeholder and a reference
Wrapped(r) == M([oneOf |-> L(<<M([type |-> S("object")]), Ref(r)>>)])
Body(content) == M([requestBody |-> M([content |-> M(content)])])
ObjectSchema(props) == M([type |-> S("object"), properties |-> M(props)])

\* everything but the Response schema: [paths, schemas, order]
RestFull ==
    [paths |-> M(
        ("/v1/files" :> M([post |-> Body(
            (Multipart :> M([schema |-> Wrapped("#/components/schemas/pkg.schema.File")])) @@
            (UrlEncoded :> M([schema |-> ObjectSchema([purpose |-> M([type |-> S("string")])])])))])) @@
        ("/v1/responses" :> M([post |-> Body(
            "application/json" :> M([schema |-> Wrapped("#/components/schemas/pkg.schema.Request")]))]))),
     schemas |->
        ("pkg.schema.File" :> ObjectSchema([id |-> M([type |-> S("string")])])) @@
        ("pkg.schema.ChunkingStrategy" :> ObjectSchema([type |-> M([type |-> S("string")])])) @@
        ("pkg.schema.CreateVectorStoreRequest" :> ObjectSchema([chunking_strategy |-> Ref(CsRef)])) @@
        ("pkg.schema.AddVectorStoreFileRequest" :> ObjectSchema([chunking_strategy |-> Ref(CsRef)])) @@
        ("pkg.schema.CreateVectorStoreFileBatchRequest" :> ObjectSchema([chunking_strategy |-> Ref(CsRef)])) @@
        ("pkg.schema.SearchVectorStoreRequest" :> ObjectSchema(
            [query |-> M([type |-> S("string")]),
             filters |-> M([type |-> S("object")]),
             max_num_results |-> M([type |-> S("integer")]),
             rewrite_query |-> M([type |-> S("boolean")])])),
     order |-> <<"pkg.schema.File", "pkg.schema.ChunkingStrategy",
                 "pkg.schema.CreateVectorStoreRequest", "pkg.schema.AddVectorStoreFileRequest",
                 "pkg.schema.CreateVectorStoreFileBatchRequest",
                 "pkg.schema.SearchVectorStoreRequest">>]

RestEmpty == [paths |-> None, schemas |-> <<>>, order |-> <<>>]

\* drifted generator output: targets partly missing, shapes the passes skip
RestPartial ==
    [paths |-> M(
        ("/v1/files" :> M([post |-> Body(
            UrlEncoded :> M([schema |-> Wrapped("#/components/schemas/pkg.schema.File")]))])) @@
        ("/v1/search" :> M(
            ("parameters" :> L(<<M([name |-> S("id")])>>)) @@
            ("get" :> M([summary |-> S("no body")])) @@
            ("put" :> Body(
                ("application/json" :> M([schema |-> M(
                    ("description" :> S("wrapped")) @@
                    ("oneOf" :> L(<<Ref("#/a"), M([type |-> S("object")])>>)))])) @@
                ("text/plain" :> M([schema |-> M([oneOf |-> Ref("#/a")])])) @@
                ("text/csv" :> M([schema |-> M([oneOf |-> L(<<Ref("#/a"), Ref("#/b")>>)])])))) @@
            ("post" :> Body(
                ("application/json" :> M([schema |-> M([oneOf |-> L(<<
                    M([type |-> S("object")]), M([type |-> S("string")])>>)])])) @@
                ("text/plain" :> M([schema |-> M([oneOf |-> L(<<
                    Ref("#/a"), Ref("#/b"), M([type |-> S("null")])>>)])])) @@
                ("application/xml" :> M([example |-> S("none")]))))))),
     schemas |->
        ("pkg.schema.VectorStoreFile" :> ObjectSchema([id |-> M([type |-> S("string")])])) @@
        ("pkg.schema.File" :> M([properties |-> M([id |-> M([type |-> S("string")])])])) @@
        ("pkg.schema.CreateVectorStoreRequest" :> ObjectSchema([name |-> M([type |-> S("string")])])) @@
        ("pkg.schema.SearchVectorStoreRequest" :> ObjectSchema(
            [max_num_results |-> M([type |-> S("integer"), default |-> I(20)]),
             ranking |-> M([anyOf |-> L(<<M([type |-> S("string")]), NullMarker>>)])])),
     order |-> <<"pkg.schema.VectorStoreFile", "pkg.schema.File",
                 "pkg.schema.CreateVectorStoreRequest", "pkg.schema.SearchVectorStoreRequest">>]

\* suffix collisions and names the passes insert already taken
RestCollide ==
    [paths |-> M(
        "/v1/files" :> M(
            ("get" :> M([summary |-> S("list")])) @@
            ("post" :> Body(
                Multipart :> M([schema |-> ObjectSchema([file |-> M([type |-> S("string")])])]))))),
     schemas |->
        ("alt.schema.File" :> ObjectSchema([id |-> M([type |-> S("string")])])) @@
        ("pkg.schema.File" :> ObjectSchema([id |-> M([type |-> S("string")])])) @@
        ("alt.schema.ChunkingStrategy" :> M([type |-> S("null")])) @@
        ("pkg.schema.ChunkingStrategy" :> ObjectSchema([type |-> M([type |-> S("string")])])) @@
        ("ComparisonFilter" :> M([type |-> S("string")])) @@
        ("AutoChunkingStrategyRequestParam" :> M([type |-> S("string")])) @@
        ("alt.schema.CreateVectorStoreRequest" :> ObjectSchema([chunking_strategy |-> Ref(CsRef)])) @@
        ("pkg.schema.CreateVectorStoreRequest" :> ObjectSchema([chunking_strategy |-> Ref(CsRef)])) @@
        ("alt.schema.SearchVectorStoreRequest" :> ObjectSchema(
            [query |-> M([type |-> S("string")]),
             rewrite_query |-> M([type |-> S("boolean")])])) @@
        ("pkg.schema.SearchVectorStoreRequest" :> ObjectSchema(
            [query |-> M([type |-> S("string")]),
             filters |-> M([type |-> S("object")])])),
     order |-> <<"alt.schema.File", "pkg.schema.File", "alt.schema.ChunkingStrategy",
                 "pkg.schema.ChunkingStrategy", "ComparisonFilter",
                 "AutoChunkingStrategyRequestParam",
                 "alt.schema.CreateVectorStoreRequest", "pkg.schema.CreateVectorStoreRequest",
                 "alt.schema.SearchVectorStoreRequest", "pkg.schema.SearchVectorStoreRequest">>]

\* no /v1/files operation at all, but a File schema
RestNoFiles ==
    [paths |-> M(
        "/v1/responses" :> M([post |-> Body(
            "application/json" :> M([schema |-> Wrapped("#/components/schemas/pkg.schema.Request")]))])),
     schemas |->
        ("pkg.schema.File" :> M([type |-> S("object"),
                                 description |-> S("An uploaded file"),
                                 properties |-> M([id |-> M([type |-> S("string")])])])),
     order |-> <<"pkg.schema.File">>]

RestParts == {RestFull, RestEmpty, RestPartial, RestCollide, RestNoFiles}

Assemble(resp, rest) ==
    [tree |-> M(("openapi" :> S("3.1.0")) @@
                Opt("paths", rest.paths) @@
                ("components" :> M([schemas |-> M(resp.schemas @@ rest.schemas)]))),
     order |-> resp.order \o rest.order]

\* documents with no components.schemas at all
BareDocs ==
    { [tree |-> EmptyDict, order |-> <<>>],
      [tree |-> M([openapi |-> S("3.1.0"), components |-> EmptyDict]), order |-> <<>>] }

\* a search request with any of the four fields the search pass rewrites
SearchRests ==
    { [paths |-> None,
       schemas |-> "pkg.schema.SearchVectorStoreRequest" :>
           M([type |-> S("object"),
              properties |-> M(("ranking" :> M([type |-> S("string")])) @@
                               Opt("query", q) @@ Opt("filters", f) @@
                               Opt("max_num_results", m) @@ Opt("rewrite_query", r))]),
       order |-> <<"pkg.schema.SearchVectorStoreRequest">>] :
         q \in {None, M([type |-> S("string")])},
         f \in {None, M([type |-> S("object")])},
         m \in {None, M([type |-> S("integer")])},
         r \in {None, M([type |-> S("boolean"), default |-> B(TRUE)])} }

Documents ==
    {Assemble(resp, rest) : resp \in ResponseParts, rest \in RestParts}
    \cup {Assemble([schemas |-> <<>>, order |-> <<>>], rest) : rest \in SearchRests}
    \cup BareDocs

\* what is on disk for a document
OnDisk(d) == [tree |-> YamlDump(d.tree), order |-> d.order]
NoFile == [tree |-> None, order |-> <<>>]

(***************************************************************************)
(* main()                                                                  *)
(***************************************************************************)
Passes == {"fix_nullable", "fix_files_api", "fix_request_body_oneof",
           "fix_chunking_strategy_union", "fix_request_chunking_strategy",
           "fix_search_request"}

Untouched == [p \in Passes |-> [r |-> {}, w |-> {}]]

HarnessIdle == UNCHANGED <<touched, pending, arg, prev, obj, calls>>

\* a slip: sys.exit() with no status, which exits with 0
UsageErrorExitsZero ==
    /\ pc = "start"
    /\ argc # 2
    /\ stderr' = Append(stderr, <<"usage">>)
    /\ exitCode' = 0
    /\ pc' = "failed"
    /\ UNCHANGED <<argc, pathExists, file, spec, stdout, trace, runs>>
    /\ HarnessIdle

\* len(sys.argv) != 2: usage on stderr, sys.exit(1)
UsageError ==
    /\ pc = "start"
    /\ argc # 2
    /\ stderr' = Append(stderr, <<"usage">>)
    /\ exitCode' = 1
    /\ pc' = "failed"
    /\ UNCHANGED <<argc, pathExists, file, spec, stdout, trace, runs>>
    /\ HarnessIdle

\* not spec_path.exists(): error on stderr, sys.exit(1)
PathNotFound ==
    /\ pc = "start"
    /\ argc = 2
    /\ ~pathExists
    /\ stderr' = Append(stderr, <<"error", "does not exist">>)
    /\ exitCode' = 1
    /\ pc' = "failed"
    /\ UNCHANGED <<argc, pathExists, file, spec, stdout, trace, runs>>
    /\ HarnessIdle

\* spec = yaml.safe_load(f)
Load ==
    /\ pc = "start"
    /\ argc = 2
    /\ pathExists
    /\ spec' = [tree |-> SafeLoad(file.tree), order |-> file.order]
    /\ pc' = "loaded"
    /\ trace' = Append(trace, "load")
    /\ UNCHANGED <<argc, pathExists, file, stderr, stdout, exitCode, runs>>
    /\ HarnessIdle

\* a pass that prints nothing
SilentPass(from, name, result) ==
    /\ pc = from
    /\ spec' = result
    /\ pc' = name
    /\ trace' = Append(trace, name)
    /\ UNCHANGED <<argc, pathExists, file, stderr, stdout, exitCode, runs>>
    /\ HarnessIdle

RunFixNullable ==
    /\ pc = "loaded"
    /\ spec' = FixNullable(spec).spec
    /\ stderr' = stderr \o FixNullable(spec).err
    /\ pc' = "fix_nullable"
    /\ trace' = Append(trace, "fix_nullable")
    /\ UNCHANGED <<argc, pathExists, file, stdout, exitCode, runs>>
    /\ HarnessIdle

RunFixFilesApi ==
    SilentPass("fix_nullable", "fix_files_api", FixFilesApi(spec))

RunFixRequestBodyOneof ==
    SilentPass("fix_files_api", "fix_request_body_oneof", FixRequestBodyOneof(spec))

RunFixChunkingStrategyUnion ==
    SilentPass("fix_request_body_oneof", "fix_chunking_strategy_union",
               FixChunkingStrategyUnion(spec))

RunFixRequestChunkingStrategy ==
    SilentPass("fix_chunking_strategy_union", "fix_request_chunking_strategy",
               FixRequestChunkingStrategy(spec))

RunFixSearchRequest ==
    SilentPass("fix_request_chunking_strategy", "fix_search_request",
               FixSearchRequest(spec))

RunTagNullTypes ==
    SilentPass("fix_search_request", "_tag_null_types",
               [spec EXCEPT !.tree = TagNullTypes(@)])

\* with open(spec_path, "w") as f: yaml.dump(spec, f, ...)
Write ==
    /\ pc = "_tag_null_types"
    /\ file' = OnDisk(spec)
    /\ pc' = "written"
    /\ trace' = Append(trace, "write")
    /\ UNCHANGED <<argc, pathExists, spec, stderr, stdout, exitCode, runs>>
    /\ HarnessIdle

\* the confirmation line, then the interpreter exits with status 0
Finish ==
    /\ pc = "written"
    /\ stdout' = Append(stdout, <<"Fixed nullable fields">>)
    /\ exitCode' = 0
    /\ pc' = "done"
    /\ UNCHANGED <<argc, pathExists, file, spec, stderr, trace, runs>>
    /\ HarnessIdle

\* the script is invoked again on the file it has written
Rerun ==
    /\ pc = "done"
    /\ runs < MaxRuns
    /\ runs' = runs + 1
    /\ pc' = "start"
    /\ spec' = NoDoc
    /\ stderr' = <<>>
    /\ stdout' = <<>>
    /\ exitCode' = -1
    /\ trace' = <<>>
    /\ UNCHANGED <<argc, pathExists, file>>
    /\ HarnessIdle

Init ==
    /\ pc = "start"
    /\ runs = 1
    /\ exitCode = -1
    /\ spec = NoDoc
    /\ stderr = <<>>
    /\ stdout = <<>>
    /\ trace = <<>>
    /\ touched = Untouched
    /\ pending = {}
    /\ arg = None
    /\ prev = None
    /\ obj = None
    /\ calls = 0
    /\ \/ /\ argc = 2
          /\ pathExists = TRUE
          /\ file \in {OnDisk(d) : d \in Documents}
       \/ /\ argc \in {1, 2, 3}
          /\ pathExists = FALSE
          /\ file = NoFile
       \/ /\ argc \in {1, 3}
          /\ pathExists = TRUE
          /\ file = OnDisk(Assemble([schemas |-> <<>>, order |-> <<>>], RestFull))

Next ==
    \/ UsageError
    \/ PathNotFound
    \/ Load
    \/ RunFixNullable
    \/ RunFixFilesApi
    \/ RunFixRequestBodyOneof
    \/ RunFixChunkingStrategyUnion
    \/ RunFixRequestChunkingStrategy
    \/ RunFixSearchRequest
    \/ RunTagNullTypes
    \/ Write
    \/ Finish
    \/ Rerun

Spec == Init /\ [][Next]_vars

(***************************************************************************)
(* Function harness: _make_nullable and _tag_null_types called on their    *)
(* own, again and again on the object they return                          *)
(***************************************************************************)
MaxSeqLen == 1

SampleRef == "#/components/schemas/pkg.schema.Usage"

\* field schemas: every combination of type, description, $ref, anyOf, format
FieldSchemas ==
    { M(Opt("type", t) @@ Opt("description", d) @@ Opt("$ref", r) @@
        Opt("anyOf", a) @@ Opt("format", x)) :
        t \in {None, S("string"), S("integer"), S("null")},
        d \in {None, S(""), S("generated text")},
        r \in {None, S(SampleRef)},
        a \in {None,
               L(<<>>),
               L(<<M([type |-> S("string")])>>),
               L(<<M([type |-> S("string")]), NullMarker>>),
               L(<<NullMarker, M([type |-> S("string")])>>),
               L(<<Ref(SampleRef), M([type |-> S("integer")])>>),
               L(<<M([type |-> S("string")]), M([type |-> S("integer")]), M([type |-> QuotedNull])>>)},
        x \in {None, S("int64")} }

\* trees of mappings, sequences and scalars
TagScalars == {S("null"), S("object"), QuotedNull}
SeqsOver(T) == UNION {[1..n -> T] : n \in 0..MaxSeqLen}
MapsOver(T) == {M(Opt("type", a) @@ Opt("items", b)) : a \in T \cup {None}, b \in T \cup {None}}
TagLevel1 == TagScalars \cup MapsOver(TagScalars) \cup {L(s) : s \in SeqsOver(TagScalars)}
TagLevel2 == TagScalars \cup MapsOver(TagLevel1) \cup {L(s) : s \in SeqsOver(TagLevel1)}
TagTrees ==
    TagLevel2
    \cup {M("properties" :> n) : n \in TagLevel2}
    \cup {M("type" :> n) : n \in TagLevel2}
    \cup {L(<<n>>) : n \in TagLevel2}

MainIdle ==
    UNCHANGED <<argc, pathExists, file, spec, stderr, stdout, exitCode, trace, runs,
                touched, pending>>

InitHarness(inputs, at) ==
    /\ pc = at
    /\ arg \in inputs
    /\ prev = arg
    /\ obj = arg
    /\ calls = 0
    /\ argc = 2
    /\ pathExists = FALSE
    /\ file = NoFile
    /\ spec = NoDoc
    /\ stderr = <<>>
    /\ stdout = <<>>
    /\ exitCode = -1
    /\ trace = <<>>
    /\ runs = 0
    /\ touched = Untouched
    /\ pending = {}

\* obj = _make_nullable(obj)
CallMakeNullable ==
    /\ pc = "_make_nullable"
    /\ calls < MaxCalls
    /\ prev' = obj
    /\ obj' = MakeNullable(obj)
    /\ calls' = calls + 1
    /\ UNCHANGED <<pc, arg>>
    /\ MainIdle

InitMakeNullable == InitHarness(FieldSchemas, "_make_nullable")
SpecMakeNullable == InitMakeNullable /\ [][CallMakeNullable]_vars

\* _tag_null_types(obj)
CallTagNullTypes ==
    /\ pc = "_tag_null_types"
    /\ calls < MaxCalls
    /\ prev' = obj
    /\ obj' = TagNullTypes(obj)
    /\ calls' = calls + 1
    /\ UNCHANGED <<pc, arg>>
    /\ MainIdle

InitTagNull == InitHarness(TagTrees, "_tag_null_types")
SpecTagNull == InitTagNull /\ [][CallTagNullTypes]_vars

(***************************************************************************)
(* Properties                                                              *)
(***************************************************************************)
\* the document main() loaded; the file is not written before the write step
Loaded == [tree |-> SafeLoad(file.tree), order |-> file.order]

Rules == DOMAIN NULLABLE_FIELDS
RuleSuffix(i) == NULLABLE_FIELDS[i][1]
RuleField(i) == NULLABLE_FIELDS[i][2]
RuleOverride(i) == NULLABLE_FIELDS[i][3]
HasOverride(i) == RuleOverride(i)[1] # "none"

\* rule i finds its schema and its field in document d
RuleHits(d, i) ==
    /\ FirstMatch(d.order, RuleSuffix(i)) # NoKey
    /\ Has(Properties(d, FirstMatch(d.order, RuleSuffix(i))), RuleField(i))
\* the field rule i names, in document d
RuleFieldIn(d, i) == Properties(d, FirstMatch(d.order, RuleSuffix(i)))[2][RuleField(i)]

\* a variant {"type": "null", ...}
IsNullVariant(n) == Has(n, "type") /\ n[2]["type"][1] \in {"str", "qnull"} /\ n[2]["type"][2] = "null"
\* a field that carries an anyOf with a null variant
IsNullUnion(f) ==
    /\ Has(f, "anyOf")
    /\ IsList(f[2]["anyOf"])
    /\ \E i \in DOMAIN f[2]["anyOf"][2] : IsNullVariant(f[2]["anyOf"][2][i])
\* exactly {"anyOf": [X, {"type": "null"}]}
ExactNullableShape(f) ==
    /\ IsDict(f)
    /\ DOMAIN f[2] = {"anyOf"}
    /\ IsList(f[2]["anyOf"])
    /\ Len(f[2]["anyOf"][2]) = 2
    /\ f[2]["anyOf"][2][2] = NullMarker

RECURSIVE Occurs(_, _)
\* the string text is a value somewhere in n
Occurs(n, text) ==
    CASE n[1] = "map" -> \E key \in DOMAIN n[2] : Occurs(n[2][key], text)
      [] n[1] = "seq" -> \E i \in DOMAIN n[2] : Occurs(n[2][i], text)
      [] n[1] = "str" -> n[2] = text
      [] OTHER -> FALSE

RECURSIVE NoRefBesideDescription(_)
\* no mapping of n has both a $ref key and a description key
NoRefBesideDescription(n) ==
    CASE n[1] = "map" -> /\ ~({"$ref", "description"} \subseteq DOMAIN n[2])
                        /\ \A key \in DOMAIN n[2] : NoRefBesideDescription(n[2][key])
      [] n[1] = "seq" -> \A i \in DOMAIN n[2] : NoRefBesideDescription(n[2][i])
      [] OTHER -> TRUE

RECURSIVE NoPlainNull(_)
\* no mapping of n has a type key whose value is the plain string "null"
NoPlainNull(n) ==
    CASE n[1] = "map" -> /\ Has(n, "type") => n[2]["type"] # S("null")
                        /\ \A key \in DOMAIN n[2] : NoPlainNull(n[2][key])
      [] n[1] = "seq" -> \A i \in DOMAIN n[2] : NoPlainNull(n[2][i])
      [] OTHER -> TRUE

\* C1: after fix_nullable, every field a rule names and finds has exactly the
\* shape {"anyOf": [X, {"type": "null"}]}
C1_NullableShape ==
    pc = "fix_nullable" =>
        \A i \in Rules : RuleHits(spec, i) => ExactNullableShape(RuleFieldIn(spec, i))

\* C2: _make_nullable is idempotent: a second call changes nothing, and a field
\* that is already a null-union is returned as it was
C2_Idempotent ==
    /\ calls = 2 => obj = prev
    /\ calls >= 1 /\ IsNullUnion(arg) => obj = arg
C2_Witness ==
    /\ pc = "_make_nullable"
    /\ calls = 2
    /\ ~IsNullUnion(arg)
    /\ Has(arg, "$ref")
    /\ Has(arg, "anyOf")
    /\ obj # arg

\* C3: for a $ref field that is not a null-union, the non-null variant is the bare
\* reference when the field had no description and the allOf of the reference and
\* the description when it had one; no mapping holds $ref beside description
C3_RefLegality ==
    pc = "_make_nullable" /\ calls = 1 /\ Has(arg, "$ref") /\ ~IsNullUnion(arg) =>
        /\ ExactNullableShape(obj)
        /\ obj[2]["anyOf"][2][1] =
              IF Has(arg, "description")
              THEN M([allOf |-> L(<<M("$ref" :> arg[2]["$ref"]),
                                    M([description |-> arg[2]["description"]])>>)])
              ELSE M("$ref" :> arg[2]["$ref"])
        /\ NoRefBesideDescription(obj)

\* the content _make_nullable receives for rule i: the loaded field, its
\* description replaced when the rule has an override
ContentGiven(i) ==
    IF HasOverride(i)
    THEN Put(RuleFieldIn(Loaded, i), "description", RuleOverride(i))
    ELSE RuleFieldIn(Loaded, i)

\* C4: a field with neither $ref nor anyOf becomes {"anyOf": [C, {"type": "null"}]},
\* C its entire content; properties no rule names, and every other schema, stay
\* as they were
C4_PrimitiveWrap ==
    pc = "fix_nullable" =>
        /\ \A i \in Rules :
              ( /\ RuleHits(Loaded, i)
                /\ ~Has(RuleFieldIn(Loaded, i), "$ref")
                /\ ~Has(RuleFieldIn(Loaded, i), "anyOf") )
              => RuleFieldIn(spec, i) = M([anyOf |-> L(<<ContentGiven(i), NullMarker>>)])
        /\ DOMAIN Schemas(spec)[2] = DOMAIN Schemas(Loaded)[2]
        /\ \A key \in DOMAIN Schemas(Loaded)[2] :
              IF key = FirstMatch(Loaded.order, "schema.Response")
              THEN /\ DOMAIN Schemas(spec)[2][key][2] = DOMAIN Schemas(Loaded)[2][key][2]
                   /\ DOMAIN Properties(spec, key)[2] = DOMAIN Properties(Loaded, key)[2]
                   /\ \A name \in DOMAIN Properties(Loaded, key)[2] :
                         (\A i \in Rules : RuleField(i) # name)
                         => Properties(spec, key)[2][name] = Properties(Loaded, key)[2][name]
              ELSE Schemas(spec)[2][key] = Schemas(Loaded)[2][key]
C4_Witness ==
    /\ pc = "fix_nullable"
    /\ RuleHits(Loaded, 1)
    /\ RuleFieldIn(Loaded, 1) = M([type |-> S("integer"), description |-> S("Unix timestamp")])
    /\ RuleFieldIn(spec, 1) =
          M([anyOf |-> L(<<M([type |-> S("integer"), description |-> S("Unix timestamp")]),
                           NullMarker>>)])
    /\ Properties(spec, "pkg.schema.Response")[2]["id"] = M([type |-> S("string")])

\* the description the non-null variant of a wrapped field carries: its own
\* description key, or the description member of its allOf
CarriedDescription(f) ==
    IF ~(Has(f, "anyOf") /\ IsList(f[2]["anyOf"]) /\ Len(f[2]["anyOf"][2]) >= 1) THEN None
    ELSE LET nn == f[2]["anyOf"][2][1]
         IN  IF Has(nn, "description") THEN nn[2]["description"]
             ELSE IF Has(nn, "allOf") /\ IsList(nn[2]["allOf"])
                     /\ \E j \in DOMAIN nn[2]["allOf"][2] : Has(nn[2]["allOf"][2][j], "description")
             THEN nn[2]["allOf"][2][CHOOSE j \in DOMAIN nn[2]["allOf"][2] :
                                      Has(nn[2]["allOf"][2][j], "description")][2]["description"]
             ELSE None

\* C5: a rule's description override is the description the non-null variant
\* carries and the previous description is gone; a rule without override leaves
\* the existing description inside the non-null variant
C5_OverrideCarried ==
    pc = "fix_nullable" =>
        \A i \in Rules : RuleHits(Loaded, i) =>
            LET before == RuleFieldIn(Loaded, i)
                after == RuleFieldIn(spec, i)
            IN  IF HasOverride(i)
                THEN /\ CarriedDescription(after) = RuleOverride(i)
                     /\ ( Has(before, "description")
                          /\ before[2]["description"] # RuleOverride(i) )
                        => ~Occurs(after, before[2]["description"][2])
                ELSE Has(before, "description")
                     => CarriedDescription(after) = before[2]["description"]

\* the name of position i of a sequence, as a path element
IndexKey(i) == <<"[1]", "[2]", "[3]", "[4]">>[i]

RECURSIVE Paths(_)
\* the paths from n to each of its nodes, n itself included
Paths(n) ==
    {<<>>} \cup
    CASE n[1] = "map" -> UNION {{<<key>> \o q : q \in Paths(n[2][key])} : key \in DOMAIN n[2]}
      [] n[1] = "seq" -> UNION {{<<IndexKey(i)>> \o q : q \in Paths(n[2][i])} : i \in DOMAIN n[2]}
      [] OTHER -> {}

RECURSIVE At(_, _)
\* the node of n at path
At(n, path) ==
    IF path = <<>> THEN n
    ELSE IF n[1] = "map" THEN At(n[2][Head(path)], Tail(path))
    ELSE At(n[2][CHOOSE i \in DOMAIN n[2] : IndexKey(i) = Head(path)], Tail(path))

IsScalar(n) == n[1] \notin {"map", "seq"}

\* C6: after _tag_null_types every type key whose value was "null" holds the
\* QuotedNull wrapper, at every depth, and every other key and value of the
\* tree is as it was
C6_NullTagExhaustive ==
    pc = "_tag_null_types" /\ calls >= 1 =>
        /\ Paths(obj) = Paths(arg)
        /\ \A p \in Paths(arg) :
              IF p # <<>> /\ p[Len(p)] = "type" /\ At(arg, p)[1] \in {"str", "qnull"}
                 /\ At(arg, p)[2] = "null"
              THEN At(obj, p) = QuotedNull
              ELSE /\ At(obj, p)[1] = At(arg, p)[1]
                   /\ IsScalar(At(arg, p)) => At(obj, p) = At(arg, p)
C6_Witness ==
    /\ pc = "_tag_null_types"
    /\ calls = 1
    /\ arg = M("type" :> M([type |-> M([type |-> S("null"), items |-> S("null")]),
                            items |-> L(<<S("null")>>)]))
    /\ obj = M("type" :> M([type |-> M([type |-> QuotedNull, items |-> S("null")]),
                            items |-> L(<<S("null")>>)]))

MainSteps == <<"load", "fix_nullable", "fix_files_api", "fix_request_body_oneof",
               "fix_chunking_strategy_union", "fix_request_chunking_strategy",
               "fix_search_request", "_tag_null_types", "write">>

\* C7: main() runs load, the six structural passes, _tag_null_types and write in
\* that order, each once; when the write starts, and in what is written, no type
\* key holds a plain "null"
C7_StepOrder ==
    /\ Len(trace) <= Len(MainSteps)
    /\ trace = SubSeq(MainSteps, 1, Len(trace))
    /\ pc = "done" => trace = MainSteps
    /\ pc = "_tag_null_types" => NoPlainNull(spec.tree)
    /\ pc \in {"written", "done"} => NoPlainNull(file.tree)
C7_Witness ==
    /\ pc = "done"
    /\ runs = 1
    /\ trace = MainSteps
    /\ GetPath(Loaded.tree, SchemasPath \o <<"pkg.schema.Response", "properties", "error">>)
          = M([anyOf |-> L(<<M([allOf |-> L(<<Ref(ErrorRef),
                                              M([description |-> S(ErrorDescription)])>>)]),
                             M([type |-> S("null")])>>)])
    /\ GetPath(spec.tree, SchemasPath \o <<"pkg.schema.Response", "properties", "error",
                                           "anyOf">>)[2][2] = M([type |-> QuotedNull])
    /\ GetPath(file.tree, SchemasPath \o <<"pkg.schema.Response", "properties", "error",
                                           "anyOf">>)[2][2] = M([type |-> <<"dq", "null">>])

\* C9: a rule that misses its schema or its field changes nothing where it would
\* have written; the rules after it are still applied, every later pass runs,
\* the document is written and the exit status is 0
C9_MissNonFatal ==
    /\ pc = "fix_nullable" =>
          \A i \in Rules :
              IF RuleHits(Loaded, i)
              THEN IsNullUnion(RuleFieldIn(spec, i))
              ELSE IF FirstMatch(Loaded.order, RuleSuffix(i)) = NoKey
              THEN spec = Loaded
              ELSE ~RuleHits(spec, i)
    /\ pc = "failed" => trace = <<>>
    /\ pc = "done" => /\ exitCode = 0
                      /\ trace = MainSteps
                      /\ file = OnDisk(spec)
    /\ pc \notin {"done", "failed"} => exitCode = -1
C9_Witness ==
    /\ pc = "done"
    /\ runs = 1
    /\ exitCode = 0
    /\ \E j \in DOMAIN stderr : stderr[j] = FieldWarning("completed_at", "pkg.schema.Response")
    /\ \E j \in DOMAIN stderr : stderr[j] = FieldWarning("usage", "pkg.schema.Response")
    /\ IsNullUnion(GetPath(spec.tree, SchemasPath \o <<"pkg.schema.Response", "properties",
                                                      "error">>))
    /\ IsNullUnion(GetPath(spec.tree, SchemasPath \o <<"pkg.schema.Response", "properties",
                                                      "incomplete_details">>))
    /\ Has(Schemas(spec), "StaticChunkingStrategyResponseParam")

\* the suffixes the passes look up
TargetSuffixes ==
    {"schema.Response", "schema.File", "schema.ChunkingStrategy",
     "schema.CreateVectorStoreRequest", "schema.AddVectorStoreFileRequest",
     "schema.CreateVectorStoreFileBatchRequest", "schema.SearchVectorStoreRequest"}

\* C10: every lookup miss of every pass is reported: when the structural passes
\* are over, stderr holds a warning for each target suffix no key ends with
C10_EveryMissReported ==
    pc = "fix_search_request" =>
        \A suffix \in TargetSuffixes :
            FirstMatch(Loaded.order, suffix) = NoKey
            => \E j \in DOMAIN stderr : stderr[j] = SchemaWarning(suffix)

(***************************************************************************)
(* Permutation harness: the six structural passes applied to a loaded      *)
(* document in any order, each once, with the locations each pass reads    *)
(* and writes.  A location is the path of keys from the document root.     *)
(***************************************************************************)
SchemaLoc(key) == SchemasPath \o <<key>>
PropertyLoc(key, name) == SchemasPath \o <<key, "properties", name>>

\* fix_nullable assigns description and rewrites the field of every rule that hits
NullableLocs(d) ==
    {PropertyLoc(FirstMatch(d.order, RuleSuffix(i)), RuleField(i)) : i \in {j \in Rules : RuleHits(d, j)}}

\* fix_files_api assigns the multipart schema, pops the urlencoded entry and
\* pops the type of the File schema
FilesLocs(d) ==
    (IF Has(GetPath(d.tree, FilesContentPath), Multipart)
     THEN {FilesContentPath \o <<Multipart, "schema">>, FilesContentPath \o <<UrlEncoded>>}
     ELSE {})
    \cup
    (IF FirstMatch(d.order, "schema.File") # NoKey
     THEN {SchemaLoc(FirstMatch(d.order, "schema.File")) \o <<"type">>}
     ELSE {})

\* the request-body schemas fix_request_body_oneof looks at: every media
\* type of every operation that has a schema
MediaSchemaLocs(d) ==
    LET paths == GetOr(d.tree, "paths", EmptyDict)
    IN  UNION { UNION { { <<"paths", path, method, "requestBody", "content", ct, "schema">> :
                            ct \in {c \in DOMAIN GetPath(paths[2][path][2][method],
                                                        <<"requestBody", "content">>)[2] :
                                       Has(GetPath(paths[2][path][2][method],
                                                   <<"requestBody", "content">>)[2][c], "schema")} } :
                        method \in {m \in DOMAIN paths[2][path][2] : IsDict(paths[2][path][2][m])} } :
                path \in DOMAIN paths[2] }
\* those it clears and rewrites
DewrapLocs(d) ==
    {loc \in MediaSchemaLocs(d) : DewrapSchema(GetPath(d.tree, loc)) # GetPath(d.tree, loc)}

\* fix_chunking_strategy_union assigns the two variants and the target schema
ChunkingUnionLocs(d) ==
    IF FirstMatch(d.order, "schema.ChunkingStrategy") = NoKey THEN {}
    ELSE {SchemaLoc("StaticChunkingStrategyResponseParam"),
          SchemaLoc("OtherChunkingStrategyResponseParam"),
          SchemaLoc(FirstMatch(d.order, "schema.ChunkingStrategy"))}

\* fix_request_chunking_strategy assigns the two variants and each request
\* schema's chunking_strategy
RequestChunkingLocs(d) ==
    IF ~HasPath(d.tree, SchemasPath) THEN {}
    ELSE {SchemaLoc("AutoChunkingStrategyRequestParam"),
          SchemaLoc("StaticChunkingStrategyRequestParam")}
         \cup {PropertyLoc(key, "chunking_strategy") :
                  key \in {x \in DOMAIN Schemas(d)[2] :
                              /\ IsRequestSchemaKey(x)
                              /\ Has(Properties(d, x), "chunking_strategy")}}

\* fix_search_request assigns the fields it finds and the two filter schemas
SearchLocs(d) ==
    LET key == FirstMatch(d.order, "schema.SearchVectorStoreRequest")
    IN  IF key = NoKey THEN {}
        ELSE {PropertyLoc(key, name) :
                 name \in {"query", "filters", "max_num_results", "rewrite_query"}
                          \cap DOMAIN Properties(d, key)[2]}
             \cup (IF Has(Properties(d, key), "filters")
                   THEN {SchemaLoc("ComparisonFilter"), SchemaLoc("CompoundFilter")}
                   ELSE {})

\* the locations pass p assigns or deletes when run on d
Writes(p, d) ==
    CASE p = "fix_nullable" -> NullableLocs(d)
      [] p = "fix_files_api" -> FilesLocs(d)
      [] p = "fix_request_body_oneof" -> DewrapLocs(d)
      [] p = "fix_chunking_strategy_union" -> ChunkingUnionLocs(d)
      [] p = "fix_request_chunking_strategy" -> RequestChunkingLocs(d)
      [] p = "fix_search_request" -> SearchLocs(d)

\* the locations whose value pass p looks at when run on d
Reads(p, d) ==
    CASE p = "fix_nullable" -> NullableLocs(d)
      [] p = "fix_request_body_oneof" -> MediaSchemaLocs(d)
      [] p = "fix_search_request" ->
            {loc \in SearchLocs(d) : loc[Len(loc)] \in {"max_num_results", "rewrite_query"}}
      [] OTHER -> {}

\* the result of pass p on d
Apply(p, d) ==
    CASE p = "fix_nullable" -> FixNullable(d).spec
      [] p = "fix_files_api" -> FixFilesApi(d)
      [] p = "fix_request_body_oneof" -> FixRequestBodyOneof(d)
      [] p = "fix_chunking_strategy_union" -> FixChunkingStrategyUnion(d)
      [] p = "fix_request_chunking_strategy" -> FixRequestChunkingStrategy(d)
      [] p = "fix_search_request" -> FixSearchRequest(d)

\* documents for the harness
PermResponseParts ==
    { [schemas |-> ("pkg.schema.Response" :> ResponseSchemaOf(e, u, c, None)),
       order |-> <<"pkg.schema.Response">>] :
         e \in {Ref(ErrorRef), M([anyOf |-> L(<<Ref(ErrorRef), NullMarker>>)])},
         u \in {None, M(("$ref" :> S(UsageRef)) @@ ("description" :> S("")))},
         c \in {M([type |-> S("integer")]),
                M([anyOf |-> L(<<M([type |-> S("string")]), M([type |-> S("integer")])>>),
                   description |-> S("Unix timestamp")])} }
    \cup
    { [schemas |-> <<>>, order |-> <<>>],
      [schemas |-> ("alt.schema.Response" :>
                       ResponseSchemaOf(Ref(ErrorRef), None, M([type |-> S("integer")]), None)) @@
                   ("pkg.schema.Response" :>
                       ResponseSchemaOf(Ref(ErrorRef), Ref(UsageRef), None, None)),
       order |-> <<"alt.schema.Response", "pkg.schema.Response">>] }

PermDocuments ==
    {Assemble(resp, rest) : resp \in PermResponseParts, rest \in RestParts} \cup BareDocs

InitPerm ==
    /\ pc = "passes"
    /\ file \in {OnDisk(d) : d \in PermDocuments}
    /\ spec = [tree |-> SafeLoad(file.tree), order |-> file.order]
    /\ pending = Passes
    /\ touched = Untouched
    /\ argc = 2
    /\ pathExists = TRUE
    /\ stderr = <<>>
    /\ stdout = <<>>
    /\ exitCode = -1
    /\ trace = <<>>
    /\ runs = 1
    /\ arg = None
    /\ prev = None
    /\ obj = None
    /\ calls = 0

\* one of the passes not yet applied is applied
ApplyPass ==
    /\ pc = "passes"
    /\ \E p \in pending :
          /\ spec' = Apply(p, spec)
          /\ touched' = [touched EXCEPT ![p] = [r |-> Reads(p, spec), w |-> Writes(p, spec)]]
          /\ pending' = pending \ {p}
    /\ UNCHANGED <<pc, argc, pathExists, file, stderr, stdout, exitCode, trace, runs,
                   arg, prev, obj, calls>>

SpecPerm == InitPerm /\ [][ApplyPass]_vars

RECURSIVE ApplyInOrder(_, _)
\* the documents of ds after the passes of order, applied first to last
ApplyInOrder(ds, order) ==
    IF order = <<>> THEN ds
    ELSE ApplyInOrder({Apply(Head(order), d) : d \in ds}, Tail(order))

\* the six passes in the order of main()
MainOrderResult(d) ==
    CHOOSE result \in ApplyInOrder({d}, SubSeq(MainSteps, 2, 7)) : TRUE

IsPrefix(a, b) == Len(a) <= Len(b) /\ SubSeq(b, 1, Len(a)) = a
\* one location is the other or lies inside it
Overlap(a, b) == IsPrefix(a, b) \/ IsPrefix(b, a)

\* the pairs (p, a, q, b): pass p wrote a, another pass q read or wrote b, and
\* the two locations overlap
Interferences ==
    { <<p, a, q, b>> \in
          UNION { {<<p, a, q, b>> : a \in touched[p].w, b \in touched[q].r \cup touched[q].w} :
                  <<p, q>> \in {pq \in Passes \X Passes : pq[1] # pq[2]} } :
      Overlap(a, b) }

\* C8 (original statement): any order of the six passes yields the same
\* document, and no pass reads or overwrites a location another pass wrote
C8_Independent ==
    pc = "passes" /\ pending = {} =>
        /\ spec.tree = MainOrderResult(Loaded).tree
        /\ Interferences = {}

\* C8 (amended): any order of the six passes yields the same document; the
\* only locations two passes share lie in the request body content of POST
\* /v1/files, between fix_files_api and fix_request_body_oneof
C8_SameResultAnyOrder ==
    pc = "passes" /\ pending = {} =>
        /\ spec.tree = MainOrderResult(Loaded).tree
        /\ \A x \in Interferences :
              /\ {x[1], x[3]} = {"fix_files_api", "fix_request_body_oneof"}
              /\ IsPrefix(FilesContentPath, x[2])
              /\ IsPrefix(FilesContentPath, x[4])
C8_Witness ==
    /\ pc = "passes"
    /\ pending = {}
    /\ \E x \in Interferences : x[1] = "fix_files_api" /\ x[3] = "fix_request_body_oneof"
    /\ GetPath(spec.tree, FilesContentPath \o <<Multipart, "schema">>) = FilesMultipartSchema
    /\ GetPath(Loaded.tree, FilesContentPath \o <<Multipart, "schema">>)
          = Wrapped("#/components/schemas/pkg.schema.File")
    /\ Has(Schemas(spec), "CompoundFilter")
    /\ Has(Schemas(spec), "AutoChunkingStrategyRequestParam")
    /\ IsNullUnion(GetPath(Schemas(spec), <<"pkg.schema.Response", "properties", "error">>))

(***************************************************************************)
(* Properties of the single passes, stated on the document before and      *)
(* after the step of main() that runs the pass                             *)
(***************************************************************************)
\* the step of main() that runs pass p
PassStep(p) == pc # p /\ pc' = p

SchemaKeys(d) == DOMAIN Schemas(d)[2]
\* the keys of components.schemas that end with suffix
Matches(d, suffix) == {key \in SchemaKeys(d) : EndsWith(key, suffix)}
\* where key stands in declaration order
Position(d, key) == CHOOSE i \in DOMAIN d.order : d.order[i] = key
\* the matching key declared before every other matching key
Earliest(d, suffix) ==
    {key \in Matches(d, suffix) :
        \A other \in Matches(d, suffix) : Position(d, key) <= Position(d, other)}
\* every matching schema but the earliest is in after what it was in before
LaterMatchesKept(before, after, suffix) ==
    \A key \in Matches(before, suffix) \ Earliest(before, suffix) :
        /\ Has(Schemas(after), key)
        /\ Schemas(after)[2][key] = Schemas(before)[2][key]

\* C11: in fix_nullable, fix_files_api, fix_chunking_strategy_union and
\* fix_search_request the rewrite goes to the earliest-declared key that ends
\* with the suffix, and every later-declared matching schema stays as it was
C11_EarliestMatchOnly ==
    [][ /\ PassStep("fix_nullable") =>
              /\ LaterMatchesKept(spec, spec', "schema.Response")
              /\ \A key \in Earliest(spec, "schema.Response") :
                    \A i \in Rules :
                        Has(Properties(spec, key), RuleField(i))
                        => IsNullUnion(Properties(spec', key)[2][RuleField(i)])
        /\ PassStep("fix_files_api") =>
              /\ LaterMatchesKept(spec, spec', "schema.File")
              /\ \A key \in Earliest(spec, "schema.File") :
                    ~Has(Schemas(spec')[2][key], "type")
        /\ PassStep("fix_chunking_strategy_union") =>
              /\ LaterMatchesKept(spec, spec', "schema.ChunkingStrategy")
              /\ \A key \in Earliest(spec, "schema.ChunkingStrategy") :
                    Has(Schemas(spec')[2][key], "oneOf")
        /\ PassStep("fix_search_request") =>
              /\ LaterMatchesKept(spec, spec', "schema.SearchVectorStoreRequest")
              /\ \A key \in Earliest(spec, "schema.SearchVectorStoreRequest") :
                    \A name \in {"query", "filters"} :
                        Has(Properties(spec, key), name)
                        => Has(Properties(spec', key)[2][name], "oneOf")
      ]_vars
C11_Witness ==
    /\ pc = "fix_search_request"
    /\ Loaded.order = <<"alt.schema.Response", "pkg.schema.Response">> \o RestCollide.order
    /\ IsNullUnion(Properties(spec, "alt.schema.Response")[2]["completed_at"])
    /\ Properties(spec, "pkg.schema.Response")[2]["usage"] = Ref(UsageRef)
    /\ ~Has(Schemas(spec)[2]["alt.schema.File"], "type")
    /\ Schemas(spec)[2]["pkg.schema.File"] = Schemas(Loaded)[2]["pkg.schema.File"]
    /\ Schemas(spec)[2]["alt.schema.ChunkingStrategy"] = ChunkingStrategyUnion
    /\ Schemas(spec)[2]["pkg.schema.ChunkingStrategy"]
          = Schemas(Loaded)[2]["pkg.schema.ChunkingStrategy"]
    /\ Properties(spec, "alt.schema.SearchVectorStoreRequest")[2]["query"] = QueryUnion
    /\ Schemas(spec)[2]["pkg.schema.SearchVectorStoreRequest"]
          = Schemas(Loaded)[2]["pkg.schema.SearchVectorStoreRequest"]

\* components.schemas of d holds key with this content
InSchemas(d, key, content) == Has(Schemas(d), key) /\ Schemas(d)[2][key] = content

\* C12: each of the three union rewriters inserts its named variant schemas
\* whether or not its target schema or field was found, always with the same
\* content
C12_VariantsAlwaysInserted ==
    /\ pc = "fix_chunking_strategy_union" =>
          /\ InSchemas(spec, "StaticChunkingStrategyResponseParam",
                       StaticChunkingStrategyResponseParam)
          /\ InSchemas(spec, "OtherChunkingStrategyResponseParam",
                       OtherChunkingStrategyResponseParam)
    /\ pc = "fix_request_chunking_strategy" =>
          /\ InSchemas(spec, "AutoChunkingStrategyRequestParam",
                       AutoChunkingStrategyRequestParam)
          /\ InSchemas(spec, "StaticChunkingStrategyRequestParam",
                       StaticChunkingStrategyRequestParam)
    /\ pc = "fix_search_request" =>
          /\ InSchemas(spec, "ComparisonFilter", ComparisonFilter)
          /\ InSchemas(spec, "CompoundFilter", CompoundFilter)

\* the positions of main() from the end of pass p to the end of the run
FromPass(p) ==
    LET i == CHOOSE j \in DOMAIN MainSteps : MainSteps[j] = p
    IN  {MainSteps[j] : j \in i..(Len(MainSteps) - 1)} \cup {"written", "done"}

\* C13: when a key ends with schema.ChunkingStrategy, from the end of
\* fix_chunking_strategy_union to the end of the run the earliest such schema
\* has exactly the keys type, description and oneOf, and oneOf is the
\* reference to the static variant followed by the reference to the other one
C13_UnionComplete ==
    pc \in FromPass("fix_chunking_strategy_union") =>
        \A key \in Earliest(spec, "schema.ChunkingStrategy") :
            LET schema == Schemas(spec)[2][key]
            IN  /\ DOMAIN schema[2] = {"type", "description", "oneOf"}
                /\ schema[2]["oneOf"] =
                      L(<<Ref("#/components/schemas/StaticChunkingStrategyResponseParam"),
                          Ref("#/components/schemas/OtherChunkingStrategyResponseParam")>>)
C13_Witness ==
    /\ pc = "_tag_null_types"
    /\ Earliest(spec, "schema.ChunkingStrategy") = {"pkg.schema.ChunkingStrategy"}
    /\ HasPath(Loaded.tree, SchemaLoc("pkg.schema.ChunkingStrategy") \o <<"properties">>)
    /\ ~Has(Schemas(spec)[2]["pkg.schema.ChunkingStrategy"], "properties")
    /\ Len(Schemas(spec)[2]["pkg.schema.ChunkingStrategy"][2]["oneOf"][2]) = 2

\* key ends with one of the three request suffixes
EndsWithRequestSuffix(key) ==
    \E suffix \in {"schema.CreateVectorStoreRequest", "schema.AddVectorStoreFileRequest",
                   "schema.CreateVectorStoreFileBatchRequest"} : EndsWith(key, suffix)
RequestVariantNames == {"AutoChunkingStrategyRequestParam", "StaticChunkingStrategyRequestParam"}
\* the oneOf the request rewrite installs
RequestOneOf ==
    L(<<Ref("#/components/schemas/AutoChunkingStrategyRequestParam"),
        Ref("#/components/schemas/StaticChunkingStrategyRequestParam")>>)
\* every request schema of before with a chunking_strategy has the oneOf in
\* after and nothing else of it changed; one without it is as it was
RequestSchemasPatched(before, after) ==
    \A key \in {k \in SchemaKeys(before) : EndsWithRequestSuffix(k)} :
        IF Has(Properties(before, key), "chunking_strategy")
        THEN /\ GetPath(Schemas(after), <<key, "properties", "chunking_strategy", "oneOf">>)
                   = RequestOneOf
             /\ Del(Properties(after, key), "chunking_strategy")
                   = Del(Properties(before, key), "chunking_strategy")
             /\ Del(Schemas(after)[2][key], "properties")
                   = Del(Schemas(before)[2][key], "properties")
        ELSE Schemas(after)[2][key] = Schemas(before)[2][key]
\* the schemas of before whose key is in keys are in after as they were
SchemasKept(before, after, keys) ==
    \A key \in keys : InSchemas(after, key, Schemas(before)[2][key])

WrapperRefs(schema) ==
    IF /\ Has(schema, "oneOf")
       /\ IsList(schema[2]["oneOf"])
       /\ Len(schema[2]["oneOf"][2]) = 2
    THEN {v \in {schema[2]["oneOf"][2][i] : i \in 1..2} : Has(v, "$ref")}
    ELSE {}

\* C15: fix_request_body_oneof turns every request-body schema that is a
\* two-element oneOf with a $ref-bearing variant into exactly {"$ref": r},
\* and leaves every other request-body schema, and the rest of the document,
\* as it was
C15_Dewrap ==
    [][ PassStep("fix_request_body_oneof") =>
            /\ \A loc \in MediaSchemaLocs(spec) :
                  LET before == GetPath(spec.tree, loc)
                      after == GetPath(spec'.tree, loc)
                  IN  IF WrapperRefs(before) = {}
                      THEN after = before
                      ELSE /\ \E v \in WrapperRefs(before) : after = M("$ref" :> v[2]["$ref"])
                           /\ Cardinality(WrapperRefs(before)) = 1
                                 => DOMAIN after[2] = {"$ref"}
            /\ MediaSchemaLocs(spec') = MediaSchemaLocs(spec)
            /\ Schemas(spec') = Schemas(spec)
            /\ DOMAIN spec'.tree[2] = DOMAIN spec.tree[2]
      ]_vars
C15_Witness ==
    /\ pc = "fix_request_body_oneof"
    /\ LET put == <<"paths", "/v1/search", "put", "requestBody", "content">>
           post == <<"paths", "/v1/search", "post", "requestBody", "content">>
       IN  /\ Has(GetPath(Loaded.tree, put \o <<"application/json", "schema">>), "description")
           /\ GetPath(spec.tree, put \o <<"application/json", "schema">>) = Ref("#/a")
           /\ GetPath(spec.tree, put \o <<"text/plain", "schema">>) = M([oneOf |-> Ref("#/a")])
           /\ Len(GetPath(spec.tree, post \o <<"text/plain", "schema", "oneOf">>)[2]) = 3
           /\ GetPath(spec.tree, post \o <<"application/json", "schema">>)
                 = GetPath(Loaded.tree, post \o <<"application/json", "schema">>)
           /\ GetPath(spec.tree, <<"paths", "/v1/files", "post", "requestBody", "content",
                                   UrlEncoded, "schema">>)
                 = Ref("#/components/schemas/pkg.schema.File")

\* C16: when the request body of POST /v1/files has a multipart/form-data
\* entry, from the end of fix_files_api to the end of the run its schema is an
\* object requiring exactly file and purpose, with exactly the properties
\* file (a binary string) and purpose (an enumerated string), and the content
\* has no application/x-www-form-urlencoded entry
C16_FilesFix ==
    pc \in FromPass("fix_files_api") /\ Has(GetPath(spec.tree, FilesContentPath), Multipart) =>
        LET content == GetPath(spec.tree, FilesContentPath)
            schema == GetOr(content[2][Multipart], "schema", EmptyDict)
            props == GetOr(schema, "properties", EmptyDict)
        IN  /\ GetOr(schema, "type", None) = S("object")
            /\ GetOr(schema, "required", None) = L(<<S("file"), S("purpose")>>)
            /\ DOMAIN props[2] = {"file", "purpose"}
            /\ GetOr(props[2]["file"], "type", None) = S("string")
            /\ GetOr(props[2]["file"], "format", None) = S("binary")
            /\ GetOr(props[2]["purpose"], "type", None) = S("string")
            /\ IsList(GetOr(props[2]["purpose"], "enum", None))
            /\ DOMAIN schema[2] = {"type", "required", "properties"}
            /\ ~Has(content, UrlEncoded)
C16_Witness ==
    /\ pc = "_tag_null_types"
    /\ Has(GetPath(Loaded.tree, FilesContentPath), UrlEncoded)
    /\ GetPath(Loaded.tree, FilesContentPath \o <<Multipart, "schema">>)
          = Wrapped("#/components/schemas/pkg.schema.File")
    /\ DOMAIN GetPath(spec.tree, FilesContentPath)[2] = {Multipart}
    /\ GetPath(spec.tree, FilesContentPath \o <<Multipart, "schema", "required">>)
          = L(<<S("file"), S("purpose")>>)

\* C17: fix_files_api removes the top-level type of the earliest schema ending
\* with schema.File and keeps its other keys, with or without a POST /v1/files
\* operation or a multipart/form-data entry; without that entry everything
\* under paths is as it was
C17_FileSchemaIndependent ==
    [][ PassStep("fix_files_api") =>
            /\ \A key \in Earliest(spec, "schema.File") :
                  /\ ~Has(Schemas(spec')[2][key], "type")
                  /\ Schemas(spec')[2][key] = Del(Schemas(spec)[2][key], "type")
            /\ ~Has(GetPath(spec.tree, FilesContentPath), Multipart) =>
                  GetOr(spec'.tree, "paths", None) = GetOr(spec.tree, "paths", None)
      ]_vars
C17_Witness ==
    /\ pc = "fix_files_api"
    /\ ~HasPath(Loaded.tree, <<"paths", "/v1/files">>)
    /\ HasPath(Loaded.tree, SchemaLoc("pkg.schema.File") \o <<"type">>)
    /\ DOMAIN GetPath(spec.tree, SchemaLoc("pkg.schema.File"))[2] = {"description", "properties"}
    /\ GetOr(spec.tree, "paths", None) = GetOr(Loaded.tree, "paths", None)

FilterNames == {"ComparisonFilter", "CompoundFilter"}

\* what fix_search_request makes of property name of its target
SearchFieldRewritten(name, before, after) ==
    CASE name = "query" ->
             /\ DOMAIN after[2] = {"description", "oneOf"}
             /\ Len(after[2]["oneOf"][2]) = 2
             /\ after[2]["oneOf"][2][1] = M([type |-> S("string")])
      [] name = "filters" ->
             /\ DOMAIN after[2] = {"description", "oneOf"}
             /\ after[2]["oneOf"] = L(<<Ref("#/components/schemas/ComparisonFilter"),
                                        Ref("#/components/schemas/CompoundFilter")>>)
      [] name = "max_num_results" -> after = Put(before, "default", I(10))
      [] name = "rewrite_query" -> after = Put(before, "default", B(FALSE))
      [] OTHER -> after = before

\* C18: fix_search_request rewrites only the earliest schema ending with
\* schema.SearchVectorStoreRequest; in it each of query, filters,
\* max_num_results and rewrite_query is rewritten when present, whatever other
\* fields are there, and no property is created; later matching schemas and
\* all other schemas but the two filter schemas are as they were
C18_SearchSingleTarget ==
    [][ PassStep("fix_search_request") =>
            /\ LaterMatchesKept(spec, spec', "schema.SearchVectorStoreRequest")
            /\ \A key \in Earliest(spec, "schema.SearchVectorStoreRequest") :
                  /\ DOMAIN Properties(spec', key)[2] = DOMAIN Properties(spec, key)[2]
                  /\ \A name \in DOMAIN Properties(spec, key)[2] :
                        SearchFieldRewritten(name, Properties(spec, key)[2][name],
                                             Properties(spec', key)[2][name])
                  /\ Del(Schemas(spec')[2][key], "properties")
                        = Del(Schemas(spec)[2][key], "properties")
                  /\ ~Has(Properties(spec, key), "filters") =>
                        /\ SchemaKeys(spec') = SchemaKeys(spec)
                        /\ SchemasKept(spec, spec', SchemaKeys(spec) \cap FilterNames)
            /\ SchemasKept(spec, spec',
                           SchemaKeys(spec) \ (Earliest(spec, "schema.SearchVectorStoreRequest")
                                                  \cup FilterNames))
      ]_vars
C18_Witness ==
    /\ pc = "fix_search_request"
    /\ Earliest(spec, "schema.SearchVectorStoreRequest") = {"pkg.schema.SearchVectorStoreRequest"}
    /\ DOMAIN Properties(Loaded, "pkg.schema.SearchVectorStoreRequest")[2]
          = {"ranking", "rewrite_query"}
    /\ Properties(spec, "pkg.schema.SearchVectorStoreRequest")
          = M([ranking |-> M([type |-> S("string")]),
               rewrite_query |-> M([type |-> S("boolean"), default |-> B(FALSE)])])
    /\ SchemaKeys(spec) \cap FilterNames = {}

\* C19: when the search target has a query property, after fix_search_request
\* it is a oneOf of {type: string} and an array-of-string variant, and
\* minItems: 1 is a key of the array variant itself
C19_QueryArrayMinItems ==
    pc = "fix_search_request" =>
        \A key \in Earliest(spec, "schema.SearchVectorStoreRequest") :
            Has(Properties(spec, key), "query") =>
                LET one_of == GetOr(Properties(spec, key)[2]["query"], "oneOf", L(<<>>))
                IN  /\ Len(one_of[2]) = 2
                    /\ one_of[2][1] = M([type |-> S("string")])
                    /\ GetOr(one_of[2][2], "type", None) = S("array")
                    /\ GetPath(one_of[2][2], <<"items", "type">>) = S("string")
                    /\ GetOr(one_of[2][2], "minItems", None) = I(1)

\* the strings of a list node, as a set
Strings(list) == {list[2][i][2] : i \in DOMAIN list[2]}
\* the variants of a oneOf list, as a set
Variants(list) == {list[2][i] : i \in DOMAIN list[2]}

\* C20: when the search target has a filters property, after
\* fix_search_request it is a oneOf of the references to ComparisonFilter and
\* CompoundFilter; ComparisonFilter requires type, key and value, its type
\* one of eq, ne, gt, gte, lt, lte; CompoundFilter requires type and filters,
\* its type one of and, or, and the items of its filters refer to
\* ComparisonFilter and to CompoundFilter itself
C20_FiltersUnion ==
    pc = "fix_search_request" =>
        \A key \in Earliest(spec, "schema.SearchVectorStoreRequest") :
            Has(Properties(spec, key), "filters") =>
                LET comparison == GetOr(Schemas(spec), "ComparisonFilter", EmptyDict)
                    compound == GetOr(Schemas(spec), "CompoundFilter", EmptyDict)
                IN  /\ GetOr(Properties(spec, key)[2]["filters"], "oneOf", None)
                          = L(<<Ref("#/components/schemas/ComparisonFilter"),
                                Ref("#/components/schemas/CompoundFilter")>>)
                    /\ SchemaKeys(spec) \cap FilterNames = FilterNames
                    /\ GetOr(comparison, "required", None) = L(<<S("type"), S("key"), S("value")>>)
                    /\ Strings(GetPath(comparison, <<"properties", "type", "enum">>))
                          = {"eq", "ne", "gt", "gte", "lt", "lte"}
                    /\ Len(GetPath(comparison, <<"properties", "type", "enum">>)[2]) = 6
                    /\ GetOr(compound, "required", None) = L(<<S("type"), S("filters")>>)
                    /\ Strings(GetPath(compound, <<"properties", "type", "enum">>)) = {"and", "or"}
                    /\ Len(GetPath(compound, <<"properties", "type", "enum">>)[2]) = 2
                    /\ GetPath(compound, <<"properties", "filters", "type">>) = S("array")
                    /\ {Ref("#/components/schemas/ComparisonFilter"),
                        Ref("#/components/schemas/CompoundFilter")}
                          \subseteq Variants(GetPath(compound, <<"properties", "filters",
                                                                "items", "oneOf">>))
C20_Witness ==
    /\ pc = "fix_search_request"
    /\ Earliest(spec, "schema.SearchVectorStoreRequest") = {"pkg.schema.SearchVectorStoreRequest"}
    /\ GetPath(Schemas(Loaded), <<"pkg.schema.SearchVectorStoreRequest", "properties", "filters">>)
          = M([type |-> S("object")])
    /\ SchemaKeys(Loaded) \cap FilterNames = {}
    /\ SchemaKeys(spec) \cap FilterNames = FilterNames
    /\ Has(GetPath(Schemas(spec), <<"pkg.schema.SearchVectorStoreRequest", "properties", "filters">>),
           "oneOf")

\* the literal default fix_search_request injects into each property
InjectedDefaults == ("max_num_results" :> I(10)) @@ ("rewrite_query" :> B(FALSE))

\* C21: when the search target has max_num_results (rewrite_query), after
\* fix_search_request its default is 10 (false) and every other key of the
\* property, type included, has the value it had before
C21_DefaultOnly ==
    [][ PassStep("fix_search_request") =>
            \A key \in Earliest(spec, "schema.SearchVectorStoreRequest") :
                \A name \in DOMAIN InjectedDefaults \cap DOMAIN Properties(spec, key)[2] :
                    LET before == Properties(spec, key)[2][name]
                        after == GetOr(Properties(spec', key), name, EmptyDict)
                    IN  /\ GetOr(after, "default", None) = InjectedDefaults[name]
                        /\ Del(after, "default") = Del(before, "default")
                        /\ GetOr(after, "type", None) = GetOr(before, "type", None)
      ]_vars
C21_Witness ==
    /\ pc = "fix_search_request"
    /\ GetPath(Schemas(Loaded), <<"pkg.schema.SearchVectorStoreRequest", "properties",
                                  "max_num_results">>)
          = M([type |-> S("integer"), default |-> I(20)])
    /\ GetPath(Schemas(spec), <<"pkg.schema.SearchVectorStoreRequest", "properties",
                                "max_num_results">>)
          = M([type |-> S("integer"), default |-> I(10)])

\* C22: with an argument count other than one path, or a path that does not
\* exist, main() prints to stderr and exits non-zero having loaded nothing,
\* run no pass and written nothing; the file changes in the write step only
C22_FatalBeforeIO ==
    [][ /\ (argc # 2 \/ ~pathExists) /\ pc = "start" =>
              /\ pc' = "failed"
              /\ exitCode' # 0
              /\ Len(stderr') = Len(stderr) + 1
              /\ stdout' = stdout
              /\ trace' = <<>>
              /\ spec' = NoDoc
              /\ file' = file
        /\ pc' = "failed" => argc # 2 \/ ~pathExists
        /\ file' # file => pc = "_tag_null_types" /\ pc' = "written"
      ]_vars
C22_Witness ==
    /\ pc = "failed"
    /\ argc = 3
    /\ pathExists
    /\ file = OnDisk(Assemble([schemas |-> <<>>, order |-> <<>>], RestFull))
    /\ exitCode = 1
    /\ stderr = << <<"usage">> >>
    /\ trace = <<>>

(***************************************************************************)
(* scripts/vllm/vllm_field_tracking.py: build_report, called on the four   *)
(* field sets its extractors return.  arg holds the four sets, obj the     *)
(* report, prev the fields for which the final else of the chain ran.      *)
(***************************************************************************)
MaxFields == 3

\* field names, in the order sorted() gives them
FieldNames == <<"input", "model", "top_k", "user">>
Fields == {FieldNames[i] : i \in 1..MaxFields}

\* vllm_fields, gateway_fields, openai_fields, forwarded_fields
FieldSets ==
    [vllm_fields : SUBSET Fields, gateway_fields : SUBSET Fields,
     openai_fields : SUBSET Fields, forwarded_fields : SUBSET Fields]

Categories == {"forwarded", "not_forwarded", "accepted_not_forwarded", "vllm_only",
               "not_implemented"}
Dropped == "<dropped>"

\* a slip: the branch for fields of the OpenAI spec alone is missing
CategoriseNoOpenAiBranch(in_vllm, in_gateway, in_openai, in_forwarded) ==
    IF in_forwarded THEN [category |-> "forwarded", fallback |-> FALSE]
    ELSE IF in_gateway /\ ~in_forwarded /\ (in_vllm \/ ~in_vllm)
    THEN [category |-> "accepted_not_forwarded", fallback |-> FALSE]
    ELSE IF in_vllm /\ in_openai /\ ~in_gateway
    THEN [category |-> "not_forwarded", fallback |-> FALSE]
    ELSE IF in_vllm /\ ~in_openai
    THEN [category |-> "vllm_only", fallback |-> FALSE]
    ELSE IF in_vllm /\ ~in_forwarded
    THEN [category |-> "not_forwarded", fallback |-> TRUE]
    ELSE IF in_openai
    THEN [category |-> "not_implemented", fallback |-> TRUE]
    ELSE [category |-> Dropped, fallback |-> TRUE]

\* a slip: the chain ends after the vLLM extensions
CategoriseDropsOpenAiOnly(in_vllm, in_gateway, in_openai, in_forwarded) ==
    IF in_forwarded THEN [category |-> "forwarded", fallback |-> FALSE]
    ELSE IF in_gateway /\ ~in_forwarded /\ (in_vllm \/ ~in_vllm)
    THEN [category |-> "accepted_not_forwarded", fallback |-> FALSE]
    ELSE IF in_vllm /\ in_openai /\ ~in_gateway
    THEN [category |-> "not_forwarded", fallback |-> FALSE]
    ELSE IF in_vllm /\ ~in_openai
    THEN [category |-> "vllm_only", fallback |-> FALSE]
    ELSE [category |-> Dropped, fallback |-> FALSE]

\* the if/elif chain of the loop body: the list the field is appended to, and
\* whether the final else was the branch taken
Categorise(in_vllm, in_gateway, in_openai, in_forwarded) ==
    IF in_forwarded THEN [category |-> "forwarded", fallback |-> FALSE]
    ELSE IF in_gateway /\ ~in_forwarded /\ (in_vllm \/ ~in_vllm)
    THEN [category |-> "accepted_not_forwarded", fallback |-> FALSE]
    ELSE IF in_vllm /\ in_openai /\ ~in_gateway
    THEN [category |-> "not_forwarded", fallback |-> FALSE]
    ELSE IF in_vllm /\ ~in_openai
    THEN [category |-> "vllm_only", fallback |-> FALSE]
    ELSE IF in_openai /\ ~in_gateway
    THEN [category |-> "not_implemented", fallback |-> FALSE]
    ELSE IF in_vllm /\ ~in_forwarded
    THEN [category |-> "not_forwarded", fallback |-> TRUE]
    ELSE IF in_openai
    THEN [category |-> "not_implemented", fallback |-> TRUE]
    ELSE [category |-> Dropped, fallback |-> TRUE]

\* all_fields = vllm_fields | gateway_fields | openai_fields
AllFields(a) == a.vllm_fields \cup a.gateway_fields \cup a.openai_fields

\* sorted(fields)
Sorted(fields) == SelectSeq(FieldNames, LAMBDA name : name \in fields)

CategoryOf(a, field) ==
    Categorise(field \in a.vllm_fields, field \in a.gateway_fields,
               field \in a.openai_fields, field \in a.forwarded_fields)

\* the list named category when the loop is over
CategoryList(a, category) ==
    SelectSeq(Sorted(AllFields(a)), LAMBDA field : CategoryOf(a, field).category = category)

\* _field_info(field)
FieldInfo(a, field) ==
    [field |-> field,
     in_openai_spec |-> field \in a.openai_fields,
     in_vllm |-> field \in a.vllm_fields,
     in_gateway_request |-> field \in a.gateway_fields,
     forwarded_to_vllm |-> field \in a.forwarded_fields]

\* the report: the summary counts and, per category, the field infos
BuildReport(a) ==
    [summary |-> [c \in Categories \cup {"total_fields"} |->
                     IF c = "total_fields" THEN Cardinality(AllFields(a))
                     ELSE Len(CategoryList(a, c))],
     fields |-> [c \in Categories |->
                     [i \in DOMAIN CategoryList(a, c) |-> FieldInfo(a, CategoryList(a, c)[i])]]]

\* the fields for which the final else ran
FallbackFields(a) == {field \in AllFields(a) : CategoryOf(a, field).fallback}

InitReport ==
    /\ pc = "build_report"
    /\ arg \in FieldSets
    /\ obj = None
    /\ prev = {}
    /\ calls = 0
    /\ argc = 2
    /\ pathExists = FALSE
    /\ file = NoFile
    /\ spec = NoDoc
    /\ stderr = <<>>
    /\ stdout = <<>>
    /\ exitCode = -1
    /\ trace = <<>>
    /\ runs = 0
    /\ touched = Untouched
    /\ pending = {}

\* report = build_report(...)
CallBuildReport ==
    /\ pc = "build_report"
    /\ obj' = BuildReport(arg)
    /\ prev' = FallbackFields(arg)
    /\ calls' = calls + 1
    /\ pc' = "report"
    /\ UNCHANGED arg
    /\ MainIdle

SpecReport == InitReport /\ [][CallBuildReport]_vars

\* the fields listed under category c of the report
Listed(c) == {obj.fields[c][i].field : i \in DOMAIN obj.fields[c]}

\* C23: every field of the union of the vLLM, gateway and OpenAI sets is
\* listed once, in exactly one of the five categories, and the five summary
\* counts add up to total_fields
C23_ExactlyOneCategory ==
    pc = "report" =>
        /\ \A field \in AllFields(arg) :
              Cardinality({c \in Categories : field \in Listed(c)}) = 1
        /\ \A c \in Categories :
              /\ Listed(c) \subseteq AllFields(arg)
              /\ Cardinality(Listed(c)) = Len(obj.fields[c])
              /\ obj.summary[c] = Len(obj.fields[c])
        /\ obj.summary["forwarded"] + obj.summary["not_forwarded"]
              + obj.summary["accepted_not_forwarded"] + obj.summary["vllm_only"]
              + obj.summary["not_implemented"] = obj.summary["total_fields"]
        /\ obj.summary["total_fields"] = Cardinality(AllFields(arg))
C23_Witness ==
    /\ pc = "report"
    /\ obj.summary["total_fields"] = 3
    /\ Listed("forwarded") = {"input"}
    /\ Listed("vllm_only") = {"top_k"}
    /\ Listed("not_implemented") = {"model"}

\* C24: a field is listed as forwarded only if the gateway accepts it and
\* vLLM has it; a field vLLM and the OpenAI spec have and that is not
\* forwarded is listed as not_forwarded; accepted_not_forwarded lists only
\* fields the gateway accepts, does not forward, and vLLM does not have
C24_DocumentedCategories ==
    pc = "report" =>
        /\ \A field \in Listed("forwarded") :
              field \in arg.gateway_fields /\ field \in arg.vllm_fields
        /\ \A field \in (arg.vllm_fields \cap arg.openai_fields) \ arg.forwarded_fields :
              field \in Listed("not_forwarded")
        /\ \A field \in Listed("accepted_not_forwarded") :
              /\ field \in arg.gateway_fields
              /\ field \notin arg.forwarded_fields
              /\ field \notin arg.vllm_fields

\* C25: the final else of the chain runs for no field of the union, whatever
\* the four memberships are, so it drops none
C25_FallbackDead ==
    pc = "report" =>
        /\ prev = {}
        /\ \A field \in AllFields(arg) : \E c \in Categories : field \in Listed(c)
C25_Witness ==
    /\ pc = "report"
    /\ prev = {}
    /\ AllFields(arg) = Fields
    /\ arg.forwarded_fields = {}
    /\ arg.gateway_fields = {}
    /\ arg.openai_fields \ arg.vllm_fields # {}
    /\ arg.vllm_fields \ arg.openai_fields # {}
    /\ arg.vllm_fields \cap arg.openai_fields # {}

\* C26: fix_nullable applied to a document fix_nullable has produced returns
\* that document, for every rule of NULLABLE_FIELDS, those with a
\* description override included
C26_FixNullableIdempotent ==
    pc = "fix_nullable" => FixNullable(spec).spec = spec

\* the references the three rewriters install, with the key each one names
InstalledRefs ==
    ("#/components/schemas/StaticChunkingStrategyResponseParam"
        :> "StaticChunkingStrategyResponseParam")
    @@ ("#/components/schemas/OtherChunkingStrategyResponseParam"
        :> "OtherChunkingStrategyResponseParam")
    @@ ("#/components/schemas/AutoChunkingStrategyRequestParam"
        :> "AutoChunkingStrategyRequestParam")
    @@ ("#/components/schemas/StaticChunkingStrategyRequestParam"
        :> "StaticChunkingStrategyRequestParam")
    @@ ("#/components/schemas/ComparisonFilter" :> "ComparisonFilter")
    @@ ("#/components/schemas/CompoundFilter" :> "CompoundFilter")

\* every installed reference occurring in d names a key of components.schemas
RefsResolve(d) ==
    \A ref \in DOMAIN InstalledRefs :
        Occurs(d.tree, ref) => InstalledRefs[ref] \in SchemaKeys(d)

\* C27: a pass that brings one of the installed references into the document
\* leaves the schema it names in components.schemas, and once the pipeline
\* has run every such reference in the document names an existing key
C27_ReferentialIntegrity ==
    [][ /\ \A p \in {"fix_chunking_strategy_union", "fix_request_chunking_strategy",
                     "fix_search_request"} :
              PassStep(p) =>
                  \A ref \in DOMAIN InstalledRefs :
                      Occurs(spec'.tree, ref) /\ ~Occurs(spec.tree, ref)
                          => InstalledRefs[ref] \in SchemaKeys(spec')
        /\ pc' \in {"_tag_null_types", "written", "done"} => RefsResolve(spec')
      ]_vars
C27_Witness ==
    /\ pc = "_tag_null_types"
    /\ runs = 1
    /\ \A ref \in DOMAIN InstalledRefs :
          Occurs(spec.tree, ref) /\ ~Occurs(Loaded.tree, ref)
    /\ Occurs(GetOr(Schemas(spec), "CompoundFilter", EmptyDict),
              "#/components/schemas/CompoundFilter")

RECURSIVE Content(_)
\* the keys and the scalar values of n, at any depth
Content(n) ==
    CASE n[1] = "map" -> {<<"key", key>> : key \in DOMAIN n[2]}
                         \cup UNION {Content(n[2][key]) : key \in DOMAIN n[2]}
      [] n[1] = "seq" -> UNION {Content(n[2][i]) : i \in DOMAIN n[2]}
      [] OTHER -> {n}

\* C28: every key and every value of a field that is not yet a null union
\* is still somewhere inside what _make_nullable returns for it: the variants
\* of an anyOf without null, the keys beside a $ref, an empty description
C28_NoContentLost ==
    pc = "_make_nullable" /\ calls = 1 /\ ~IsNullUnion(arg) =>
        Content(arg) \subseteq Content(obj)

\* C29: when fix_request_body_oneof collapses a two-element oneOf, every
\* $ref a variant of that oneOf carried is the $ref of the schema that
\* replaces it, so a oneOf of two references is not reduced to one of them
C29_NoReferenceDiscarded ==
    [][ PassStep("fix_request_body_oneof") =>
            \A loc \in MediaSchemaLocs(spec) :
                LET before == GetPath(spec.tree, loc)
                    after == GetPath(spec'.tree, loc)
                IN  after # before =>
                        \A v \in WrapperRefs(before) :
                            GetOr(after, "$ref", None) = v[2]["$ref"]
      ]_vars

\* the places where the loop of fix_request_chunking_strategy stores
\* request_cs: the assignment stores the one dict built before the loop, so
\* all these places hold the same object
RequestCsHolders(d) ==
    {PropertyLoc(key, "chunking_strategy") :
        key \in {k \in SchemaKeys(d) :
                    /\ IsRequestSchemaKey(k)
                    /\ Has(Properties(d, k), "chunking_strategy")}}

\* C30: the chunking_strategy values fix_request_chunking_strategy installs
\* in different request schemas are distinct objects: no two places of the
\* document hold the same mapping
C30_NoSharedNodes ==
    [][ PassStep("fix_request_chunking_strategy") =>
            /\ \A loc \in RequestCsHolders(spec) : GetPath(spec'.tree, loc) = request_cs
            /\ Cardinality(RequestCsHolders(spec)) <= 1
      ]_vars

====
